---- MODULE Spec2Model ----
(***************************************************************************)
(* Position Ledger of quant-news-trader (src/portfolio.py) and its callers *)
(* (src/daily_report.py, src/dashboard.py).                                *)
(*                                                                         *)
(* Units.  Option prices, strikes, stock prices and dollar amounts are     *)
(* integers in units of $0.0001, so $1.20 is 12000 and one cent is 100.    *)
(* pnl_percent is in units of 0.01 percent.  The clock is in ticks; an id  *)
(* keeps whole seconds, entry_date whole minutes, an expiration is a day   *)
(* number.  Python floats are modelled as exact decimals: every input of   *)
(* the model is a multiple of $0.001, which keeps x*0.9 and x*0.1 exact.   *)
(***************************************************************************)
EXTENDS Integers, Sequences, FiniteSets, TLC

VARIABLES
    portfolio,   \* portfolio.json: the sequence of open Position records
    history,     \* trade_history.json: the sequence of ClosedTrade records
    now,         \* datetime.now(), in ticks
    issued,      \* ids returned by open_position so far, in call order
    ret,         \* the last ledger call: its arguments and what it returned
    pc,          \* step-level runs: where each caller is in its handler
    loc,         \* step-level runs: each caller's loaded lists and arguments
    done,        \* step-level runs: ids whose close_position has returned
    sig,         \* the signal engine: the function called, its input, its result
    gen          \* generate_trades: the watchlist, the loop index, the trades

ledger_vars == <<portfolio, history, now, issued, ret, pc, loc, done>>

engine_vars == <<sig, gen>>

vars == <<portfolio, history, now, issued, ret, pc, loc, done, sig, gen>>

\* ---------------------------------------------------------------- bounds
MaxNow == 2
TicksPerSecond == 2
MaxOpens == 2
NumProcs == 2

\* ------------------------------------------------------ program constants
SecondsPerMinute == 60
SecondsPerDay == 86400
OptionMultiplier == 100
ExpiringDays == 5
Cent == 100

Procs == 1..NumProcs

\* ------------------------------------------------------------ arithmetic
Max(a, b) == IF a >= b THEN a ELSE b

\* a / b rounded to the nearest integer, ties to even (Python's round()).
RoundDiv(a, b) ==
    LET n == IF b < 0 THEN 0 - a ELSE a
        d == IF b < 0 THEN 0 - b ELSE b
        q == n \div d
        r == n % d
    IN  IF 2 * r < d THEN q
        ELSE IF 2 * r > d THEN q + 1
        ELSE IF q % 2 = 0 THEN q ELSE q + 1

\* round(x, 2): a dollar amount to whole cents.
Round2(x) == RoundDiv(x, Cent) * Cent

\* round((pnl / cost) * 100, 2) in units of 0.01 percent.  cost is a multiple
\* of OptionMultiplier (it is entry_price * contracts * 100).
PercentOf(pnl, cost) == RoundDiv(pnl * 100, cost \div 100)

\* x * 0.9 and x * 0.1 (exact on multiples of $0.001).
Times09(x) == (x * 9) \div 10
Times01(x) == x \div 10

\* ----------------------------------------------------------------- clock
TicksPerMinute == TicksPerSecond * SecondsPerMinute
TicksPerDay == TicksPerSecond * SecondsPerDay

\* strftime("%Y%m%d%H%M%S"): the clock cut to whole seconds.
generate_trade_id(t) == t \div TicksPerSecond

\* strftime("%Y-%m-%d %H:%M"): the clock cut to whole minutes.
FormatMinute(t) == t \div TicksPerMinute

\* strptime(expiration, "%Y-%m-%d"): midnight at the start of that day.
ParseDay(d) == d * TicksPerDay

\* (exp_date - datetime.now()).days: timedelta.days is the floor.
DaysToExp(expiration, t) == (ParseDay(expiration) - t) \div TicksPerDay

\* ---------------------------------------------------------------- inputs
\* Arguments of open_position.  The function validates none of them.
Orders ==
    { [ticker |-> "NVDA", contract |-> "NVDA 18 Call", option_type |-> "call",
       strike |-> 180000, expiration |-> 6, entry_price |-> 12000,
       contracts |-> 2, target_price |-> 20000, stop_price |-> 6000,
       stock_target |-> 190000],
      [ticker |-> "AMD", contract |-> "AMD 10 Put", option_type |-> "put",
       strike |-> 100000, expiration |-> 5, entry_price |-> 12340,
       contracts |-> 1, target_price |-> 10000, stop_price |-> 15000,
       stock_target |-> 95000],
      [ticker |-> "TSLA", contract |-> "TSLA 25 Call", option_type |-> "call",
       strike |-> 250000, expiration |-> 7, entry_price |-> 12000,
       contracts |-> 0, target_price |-> 20000, stop_price |-> 6000,
       stock_target |-> 260000] }

NoRet ==
    [op |-> "none", at |-> 0, outcome |-> "none", id |-> 0 - 1, exit_price |-> 0,
     exit_reason |-> "", valid |-> FALSE, pos |-> <<>>, closed |-> <<>>,
     alerts |-> <<>>, quotes |-> <<>>, prices |-> <<>>,
     updated |-> <<>>, closed_today |-> <<>>]

\* The signal engine at rest: no function has been called.
NoSig == [phase |-> "idle", fn |-> "none"]

\* generate_trades not running.
NoGen == [phase |-> "idle"]

\* ---------------------------------------------------------- open_position
MkPosition(o, t) ==
    [id |-> generate_trade_id(t),
     ticker |-> o.ticker,
     contract |-> o.contract,
     option_type |-> o.option_type,
     strike |-> o.strike,
     expiration |-> o.expiration,
     entry_date |-> FormatMinute(t),
     entry_price |-> o.entry_price,
     contracts |-> o.contracts,
     cost_basis |-> o.entry_price * o.contracts * OptionMultiplier,
     target_price |-> o.target_price,
     stop_price |-> o.stop_price,
     stock_target |-> o.stock_target,
     current_price |-> o.entry_price,
     current_value |-> o.entry_price * o.contracts * OptionMultiplier,
     pnl_dollars |-> 0,
     pnl_percent |-> 0,
     status |-> "OPEN"]

open_position(o) ==
    /\ Len(issued) < MaxOpens
    /\ LET position == MkPosition(o, now)
       IN  /\ portfolio' = Append(portfolio, position)
           /\ issued' = Append(issued, position.id)
           /\ ret' = [NoRet EXCEPT !.op = "open", !.at = now,
                                   !.outcome = "returned",
                                   !.valid = (o.entry_price > 0 /\ o.contracts > 0),
                                   !.id = position.id,
                                   !.pos = <<position>>]
    /\ UNCHANGED <<history, now, pc, loc, done, engine_vars>>

\* --------------------------------------------------------- close_position
\* for i, p in enumerate(positions): if p.id == position_id: the first match.
FirstIndex(positions, position_id) ==
    LET hits == {i \in 1..Len(positions) : positions[i].id = position_id}
    IN  IF hits = {} THEN 0 ELSE CHOOSE i \in hits : \A j \in hits : i <= j

\* positions.pop(i)
Pop(positions, i) ==
    [k \in 1..(Len(positions) - 1) |->
        IF k < i THEN positions[k] ELSE positions[k + 1]]

ResultOf(pnl_dollars) ==
    IF pnl_dollars > 0 THEN "WIN"
    ELSE IF pnl_dollars < 0 THEN "LOSS" ELSE "BREAKEVEN"

MkClosedTrade(position, exit_price, exit_reason, t) ==
    LET exit_value == exit_price * position.contracts * OptionMultiplier
        pnl_dollars == exit_value - position.cost_basis
        pnl_percent == PercentOf(pnl_dollars, position.cost_basis)
    IN  [id |-> position.id,
         ticker |-> position.ticker,
         contract |-> position.contract,
         option_type |-> position.option_type,
         entry_date |-> position.entry_date,
         entry_price |-> position.entry_price,
         exit_date |-> FormatMinute(t),
         exit_price |-> exit_price,
         contracts |-> position.contracts,
         pnl_dollars |-> Round2(pnl_dollars),
         pnl_percent |-> pnl_percent,
         result |-> ResultOf(pnl_dollars),
         exit_reason |-> exit_reason]

\* What close_position does with the lists it loaded:
\*   "None"     the id is not open: a message is printed, nothing is returned
\*   "raised"   cost_basis is 0: pnl_dollars / cost_basis raises before any save
\*   "returned" the ClosedTrade is returned; both lists are to be saved
CloseOn(positions, trades, position_id, exit_price, exit_reason, t) ==
    LET i == FirstIndex(positions, position_id)
    IN  IF i = 0
        THEN [outcome |-> "None", positions |-> positions, trades |-> trades,
              closed |-> <<>>]
        ELSE IF positions[i].cost_basis = 0
        THEN [outcome |-> "raised", positions |-> positions, trades |-> trades,
              closed |-> <<>>]
        ELSE LET closed == MkClosedTrade(positions[i], exit_price, exit_reason, t)
             IN  [outcome |-> "returned",
                  positions |-> Pop(positions, i),
                  trades |-> Append(trades, closed),
                  closed |-> <<closed>>]

CloseIds == {generate_trade_id(t) : t \in 0..MaxNow}

\* Arguments of close_position besides the id.
Exits ==
    { [exit_price |-> 12000, exit_reason |-> "MANUAL"],
      [exit_price |-> 20000, exit_reason |-> "EXPIRED"],
      [exit_price |-> 6000, exit_reason |-> "STOP"] }

close_position(position_id, exit_price, exit_reason) ==
    LET r == CloseOn(portfolio, history, position_id, exit_price, exit_reason, now)
    IN  /\ portfolio' = r.positions
        /\ history' = r.trades
        /\ ret' = [NoRet EXCEPT !.op = "close", !.at = now,
                                !.outcome = r.outcome,
                                !.id = position_id,
                                !.exit_price = exit_price,
                                !.exit_reason = exit_reason,
                                !.closed = r.closed]
        /\ UNCHANGED <<now, issued, pc, loc, done, engine_vars>>

\* ------------------------------------------------------- update_positions
\* What the two lookups for one contract answer during one update_positions.
\*   opt.kind:   "raise" (option_chain fails), "nostrike" (no row for the
\*               strike), "quote" (bid and ask of the row)
\*   stock.kind: "raise" (the lookup fails), "absent" (fast_info has no
\*               lastPrice: .get() answers 0), "value"
QMid == [opt |-> [kind |-> "quote", bid |-> 19920, ask |-> 20000],
         stock |-> [kind |-> "raise", price |-> 0]]

QDown == [opt |-> [kind |-> "raise", bid |-> 0, ask |-> 0],
          stock |-> [kind |-> "raise", price |-> 0]]

QStock == [opt |-> [kind |-> "nostrike", bid |-> 0, ask |-> 0],
           stock |-> [kind |-> "value", price |-> 200000]]

QAbsent == [opt |-> [kind |-> "raise", bid |-> 0, ask |-> 0],
            stock |-> [kind |-> "absent", price |-> 0]]

Tickers == {o.ticker : o \in Orders}

\* The market during one call: what each ticker's lookups answer.
Markets ==
    { [t \in Tickers |-> QMid],
      [t \in Tickers |-> QDown],
      [t \in Tickers |-> QStock],
      [t \in Tickers |-> QAbsent],
      [t \in Tickers |-> IF t = "NVDA" THEN QMid ELSE QDown] }

QuotesFor(positions, m) == [i \in 1..Len(positions) |-> m[positions[i].ticker]]

\* get_option_price: (bid + ask) / 2, or None.
get_option_price(opt) ==
    IF opt.kind = "quote"
    THEN [ok |-> TRUE, price |-> (opt.bid + opt.ask) \div 2]
    ELSE [ok |-> FALSE, price |-> 0]

\* The local `price` of the loop body (lines 276-292).
PriceFor(pos, q) ==
    LET got == get_option_price(q.opt)
    IN  IF got.ok THEN got.price
        ELSE IF q.stock.kind = "raise" THEN pos.current_price
        ELSE LET stock_price == IF q.stock.kind = "absent" THEN 0
                                ELSE q.stock.price
                 intrinsic == IF pos.option_type = "call"
                              THEN Max(0, stock_price - pos.strike)
                              ELSE Max(0, pos.strike - stock_price)
             IN  Max(Times09(intrinsic), Times01(pos.entry_price))

\* Mutant: the update closes what reached its target.
Revalue_ClosesAtTarget(pos, price) ==
    [pos EXCEPT !.current_price = Round2(price),
                !.current_value = Round2(price * pos.contracts * OptionMultiplier),
                !.pnl_dollars =
                    Round2(price * pos.contracts * OptionMultiplier - pos.cost_basis),
                !.pnl_percent =
                    PercentOf(price * pos.contracts * OptionMultiplier - pos.cost_basis,
                              pos.cost_basis),
                !.status = IF price >= pos.target_price THEN "CLOSED_WIN"
                           ELSE pos.status]

\* Lines 294-297: the four valuation fields.
Revalue(pos, price) ==
    LET current_value == Round2(price * pos.contracts * OptionMultiplier)
        pnl_dollars == Round2(current_value - pos.cost_basis)
    IN  [pos EXCEPT !.current_price = Round2(price),
                    !.current_value = current_value,
                    !.pnl_dollars = pnl_dollars,
                    !.pnl_percent = PercentOf(pnl_dollars, pos.cost_basis)]

\* Mutant: the stop check as an `if` of its own instead of the `elif`.
ExitAlert_Independent(pos, price) ==
    (IF price >= pos.target_price THEN <<"TARGET_HIT">> ELSE <<>>)
        \o (IF price <= pos.stop_price THEN <<"STOP_HIT">> ELSE <<>>)

\* Lines 299-322: the alerts of one position, in the order they are appended.
ExitAlert(pos, price) ==
    IF price >= pos.target_price THEN <<"TARGET_HIT">>
    ELSE IF price <= pos.stop_price THEN <<"STOP_HIT">>
    ELSE <<>>

ExpiryAlert(pos, t) ==
    IF DaysToExp(pos.expiration, t) <= ExpiringDays
    THEN <<"EXPIRING_SOON">> ELSE <<>>

AlertsFor(pos, price, t, i) ==
    LET types == ExitAlert(pos, price) \o ExpiryAlert(pos, t)
    IN  [k \in 1..Len(types) |->
            [index |-> i, id |-> pos.id, alert_type |-> types[k]]]

RECURSIVE AlertsUpTo(_, _, _, _)
AlertsUpTo(positions, prices, t, n) ==
    IF n = 0 THEN <<>>
    ELSE AlertsUpTo(positions, prices, t, n - 1)
            \o AlertsFor(positions[n], prices[n], t, n)

\* What update_positions does with the list it loaded, given the quotes:
\*   "raised"   some cost_basis is 0: line 297 divides by it, before the save
\*   "returned" the revalued list is to be saved and the alerts are returned
UpdateOn(positions, q, t) ==
    LET n == Len(positions)
        prices == [i \in 1..n |-> PriceFor(positions[i], q[i])]
    IN  IF \E i \in 1..n : positions[i].cost_basis = 0
        THEN [outcome |-> "raised", positions |-> positions, alerts |-> <<>>,
              prices |-> <<>>]
        ELSE [outcome |-> "returned",
              positions |-> [i \in 1..n |-> Revalue(positions[i], prices[i])],
              alerts |-> AlertsUpTo(positions, prices, t, n),
              prices |-> prices]

update_positions(q) ==
    LET r == UpdateOn(portfolio, q, now)
    IN  /\ portfolio' = r.positions
        /\ ret' = [NoRet EXCEPT !.op = "update", !.at = now,
                                !.outcome = r.outcome,
                                !.alerts = r.alerts,
                                !.quotes = q,
                                !.prices = r.prices]
        /\ UNCHANGED <<history, now, issued, pc, loc, done, engine_vars>>

\* ------------------------------------------------------------------ time
Tick ==
    /\ now < MaxNow
    /\ now' = now + 1
    /\ UNCHANGED <<portfolio, history, issued, ret, pc, loc, done, engine_vars>>

\* ------------------------------------------------------------------ spec
Init ==
    /\ portfolio = <<>>
    /\ history = <<>>
    /\ now = 0
    /\ issued = <<>>
    /\ ret = NoRet
    /\ pc = [p \in Procs |-> "idle"]
    /\ loc = [p \in Procs |-> <<>>]
    /\ done = {}
    /\ sig = NoSig
    /\ gen = NoGen

Next ==
    \/ \E o \in Orders : open_position(o)
    \/ \E id \in CloseIds, x \in Exits :
          close_position(id, x.exit_price, x.exit_reason)
    \/ \E m \in Markets : update_positions(QuotesFor(portfolio, m))
    \/ Tick

Spec == Init /\ [][Next]_vars
\* ------------------------------------------------- step-level handlers
\* The callers (the dashboard's request handlers, the daily-report loop, the
\* trade-alerts loop) are separate processes on the same two files, and the
\* handlers take no lock: a step is one file read or one file write.
\* open_position is taken whole here; the interleavings examined are those
\* of update_positions and close_position.
StepMarkets == {[t \in Tickers |-> QMid], [t \in Tickers |-> QDown]}

StepOrders == {o \in Orders : o.contracts > 0}

StepExits == {[exit_price |-> 20000, exit_reason |-> "TARGET"]}

\* update_positions, line 271: positions = load_portfolio()
upd_load(p) ==
    /\ pc[p] = "idle"
    /\ pc' = [pc EXCEPT ![p] = "upd_loaded"]
    /\ loc' = [loc EXCEPT ![p] = [positions |-> portfolio]]
    /\ UNCHANGED <<portfolio, history, now, issued, ret, done, engine_vars>>

\* update_positions, lines 274-325: the lookups, then save_portfolio(positions)
upd_save(p, m) ==
    /\ pc[p] = "upd_loaded"
    /\ LET r == UpdateOn(loc[p].positions, QuotesFor(loc[p].positions, m), now)
       IN  portfolio' = IF r.outcome = "returned" THEN r.positions ELSE portfolio
    /\ pc' = [pc EXCEPT ![p] = "idle"]
    /\ loc' = [loc EXCEPT ![p] = <<>>]
    /\ UNCHANGED <<history, now, issued, ret, done, engine_vars>>

\* close_position, line 196: positions = load_portfolio()
close_load_portfolio(p, position_id, x) ==
    /\ pc[p] = "idle"
    /\ Len(history) < MaxOpens
    /\ pc' = [pc EXCEPT ![p] = "close_loaded"]
    /\ loc' = [loc EXCEPT ![p] = [positions |-> portfolio, id |-> position_id,
                                  exit |-> x]]
    /\ UNCHANGED <<portfolio, history, now, issued, ret, done, engine_vars>>

\* close_position, lines 197-233: history = load_trade_history(), then the
\* search, the P&L and history.append(closed), all on the loaded lists.
close_load_history(p) ==
    /\ pc[p] = "close_loaded"
    /\ LET r == CloseOn(loc[p].positions, history, loc[p].id,
                        loc[p].exit.exit_price, loc[p].exit.exit_reason, now)
       IN  IF r.outcome = "returned"
           THEN /\ pc' = [pc EXCEPT ![p] = "close_save_portfolio"]
                /\ loc' = [loc EXCEPT ![p] = [positions |-> r.positions,
                                              trades |-> r.trades,
                                              id |-> loc[p].id]]
           ELSE /\ pc' = [pc EXCEPT ![p] = "idle"]
                /\ loc' = [loc EXCEPT ![p] = <<>>]
    /\ UNCHANGED <<portfolio, history, now, issued, ret, done, engine_vars>>

\* close_position, line 234: save_portfolio(positions)
close_save_portfolio(p) ==
    /\ pc[p] = "close_save_portfolio"
    /\ portfolio' = loc[p].positions
    /\ pc' = [pc EXCEPT ![p] = "close_save_history"]
    /\ UNCHANGED <<history, now, issued, ret, loc, done, engine_vars>>

\* close_position, lines 235-243: save_trade_history(history); return closed
close_save_history(p) ==
    /\ pc[p] = "close_save_history"
    /\ history' = loc[p].trades
    /\ done' = done \cup {loc[p].id}
    /\ pc' = [pc EXCEPT ![p] = "idle"]
    /\ loc' = [loc EXCEPT ![p] = <<>>]
    /\ UNCHANGED <<portfolio, now, issued, ret, engine_vars>>

\* The caller stops between the two writes: save_trade_history raises (the
\* file cannot be written) or the process is interrupted at line 235.
close_fail(p) ==
    /\ pc[p] = "close_save_history"
    /\ pc' = [pc EXCEPT ![p] = "failed"]
    /\ UNCHANGED <<portfolio, history, now, issued, ret, loc, done, engine_vars>>

NextSteps ==
    \/ \E o \in StepOrders : open_position(o)
    \/ Tick
    \/ \E p \in Procs : upd_load(p)
    \/ \E p \in Procs, m \in StepMarkets : upd_save(p, m)
    \/ \E p \in Procs, id \in CloseIds, x \in StepExits :
          close_load_portfolio(p, id, x)
    \/ \E p \in Procs : close_load_history(p)
    \/ \E p \in Procs : close_save_portfolio(p)
    \/ \E p \in Procs : close_save_history(p)
    \/ \E p \in Procs : close_fail(p)

SpecSteps == Init /\ [][NextSteps]_vars

\* ============================================================== claims
OpenIds == {portfolio[i].id : i \in 1..Len(portfolio)}

HistIds == {history[i].id : i \in 1..Len(history)}

Occurrences(id) ==
    Cardinality({i \in 1..Len(portfolio) : portfolio[i].id = id})
        + Cardinality({i \in 1..Len(history) : history[i].id = id})

IssuedDistinct ==
    \A i, j \in 1..Len(issued) : i # j => issued[i] # issued[j]

\* A step that is one call of the named operation (a step that changes
\* nothing is excused by [A]_vars).
CloseStep == ret'.op = "close" /\ now' = now
UpdateStep == ret'.op = "update" /\ now' = now

\* C1: the open set and the history are disjoint by id, and every id that
\* open_position returned is in exactly one of them, exactly once.
C1_DisjointExactlyOnce ==
    /\ OpenIds \cap HistIds = {}
    /\ \A k \in 1..Len(issued) : Occurrences(issued[k]) = 1

\* C2: every open_position returns an id that no earlier open_position
\* returned, also when the clock reads the same instant.
C2_IdsUnique == IssuedDistinct

\* C3: however update_positions and close_position of several callers
\* interleave, a position whose close_position has returned is not in the
\* open set again and its ClosedTrade is in the history.  (Stated for ledgers
\* whose ids are distinct.)
C3_NoLostUpdate ==
    IssuedDistinct
        => \A id \in done : id \notin OpenIds /\ id \in HistIds

\* C4: a close_position that stopped between its two writes leaves the
\* position either still open or in the history, never in neither.  (Stated
\* for ledgers whose ids are distinct.)
C4_AtomicClose ==
    IssuedDistinct
        => \A p \in Procs :
              pc[p] = "failed"
                  => (loc[p].id \in OpenIds \/ loc[p].id \in HistIds)

\* C5: close_position on an id that is not open answers with an error and
\* changes neither the open set nor the history.
C5_CloseMissingIsError ==
    [][(CloseStep /\ FirstIndex(portfolio, ret'.id) = 0)
          => (ret'.outcome = "error" /\ UNCHANGED <<portfolio, history>>)]_vars

\* C6: open_position with entry_price <= 0 or contracts <= 0 is rejected and
\* appends nothing, so every open position has
\* cost_basis = entry_price * contracts * 100 > 0.
C6_RejectsNonPositive ==
    /\ (ret.op = "open" /\ ~ret.valid) => ret.outcome = "error"
    /\ \A i \in 1..Len(portfolio) :
          /\ portfolio[i].cost_basis > 0
          /\ portfolio[i].cost_basis =
                portfolio[i].entry_price * portfolio[i].contracts * OptionMultiplier

\* C7: open_position with positive entry_price and contracts, followed by
\* close_position(id, entry_price, "MANUAL") on the id it returned, returns
\* the ClosedTrade of that position with pnl_dollars = 0 and result
\* BREAKEVEN, whatever else is in the ledger.
C7_RoundTrip ==
    [][(/\ ret.op = "open" /\ ret.valid
        /\ CloseStep
        /\ ret'.id = ret.id
        /\ ret'.exit_price = ret.pos[1].entry_price
        /\ ret'.exit_reason = "MANUAL")
          => (/\ ret'.outcome = "returned"
              /\ ret'.closed[1].pnl_dollars = 0
              /\ ret'.closed[1].result = "BREAKEVEN"
              /\ ret'.closed[1].ticker = ret.pos[1].ticker
              /\ ret'.closed[1].contracts = ret.pos[1].contracts
              /\ ret'.closed[1].entry_price = ret.pos[1].entry_price)]_vars

Valuation(pos) ==
    <<pos.current_price, pos.current_value, pos.pnl_dollars, pos.pnl_percent>>

\* C8: a second update_positions with the same quotes as the one before it
\* leaves every position's valuation fields as the first left them and
\* returns the same alerts.
C8_Idempotent ==
    [][(/\ ret.op = "update" /\ ret.at = now
        /\ UpdateStep
        /\ ret'.quotes = ret.quotes)
          => (/\ ret'.alerts = ret.alerts
              /\ Len(portfolio') = Len(portfolio)
              /\ \A i \in 1..Len(portfolio) :
                    Valuation(portfolio'[i]) = Valuation(portfolio[i]))]_vars

Static(pos) ==
    [pos EXCEPT !.current_price = 0, !.current_value = 0,
                !.pnl_dollars = 0, !.pnl_percent = 0]

\* C9: update_positions changes nothing but the four valuation fields of
\* the open positions: same positions in the same order, same history, all
\* other fields (status included) as before, whatever alerts it returns.
C9_UpdateFrame ==
    [][UpdateStep
          => (/\ history' = history
              /\ issued' = issued
              /\ Len(portfolio') = Len(portfolio)
              /\ \A i \in 1..Len(portfolio) :
                    Static(portfolio'[i]) = Static(portfolio[i]))]_vars

HasAlert(i, type) ==
    \E k \in 1..Len(ret.alerts) :
        ret.alerts[k].index = i /\ ret.alerts[k].alert_type = type

\* C9 witness: an update has returned a TARGET_HIT and an EXPIRING_SOON alert
\* for a position that it revalued and that is still open.
C9_Witness ==
    /\ ret.op = "update" /\ ret.outcome = "returned"
    /\ \E i \in 1..Len(portfolio) :
          /\ HasAlert(i, "TARGET_HIT")
          /\ HasAlert(i, "EXPIRING_SOON")
          /\ portfolio[i].current_price # portfolio[i].entry_price
          /\ portfolio[i].status = "OPEN"

\* C10 as claimed: TARGET_HIT iff the stored current_price >= target_price,
\* STOP_HIT iff the stored current_price <= stop_price, EXPIRING_SOON iff
\* days to expiration <= 5, each independently of the others.
C10_Original ==
    (ret.op = "update" /\ ret.outcome = "returned")
        => \A i \in 1..Len(portfolio) :
              /\ HasAlert(i, "TARGET_HIT")
                    <=> portfolio[i].current_price >= portfolio[i].target_price
              /\ HasAlert(i, "STOP_HIT")
                    <=> portfolio[i].current_price <= portfolio[i].stop_price
              /\ HasAlert(i, "EXPIRING_SOON")
                    <=> DaysToExp(portfolio[i].expiration, ret.at) <= ExpiringDays

\* C10 as amended: the price compared is the unrounded price whose rounding
\* to cents is stored as current_price; TARGET_HIT iff price >= target_price;
\* STOP_HIT iff price <= stop_price and not price >= target_price;
\* EXPIRING_SOON iff days to expiration <= 5, independently of the two; and
\* there are no other alerts.
C10_Alerts ==
    (ret.op = "update" /\ ret.outcome = "returned")
        => /\ Len(ret.prices) = Len(portfolio)
           /\ \A i \in 1..Len(portfolio) :
                 /\ portfolio[i].current_price = Round2(ret.prices[i])
                 /\ HasAlert(i, "TARGET_HIT")
                       <=> ret.prices[i] >= portfolio[i].target_price
                 /\ HasAlert(i, "STOP_HIT")
                       <=> (/\ ret.prices[i] <= portfolio[i].stop_price
                            /\ ret.prices[i] < portfolio[i].target_price)
                 /\ HasAlert(i, "EXPIRING_SOON")
                       <=> DaysToExp(portfolio[i].expiration, ret.at) <= ExpiringDays
           /\ \A k \in 1..Len(ret.alerts) :
                 /\ ret.alerts[k].index \in 1..Len(portfolio)
                 /\ ret.alerts[k].id = portfolio[ret.alerts[k].index].id
                 /\ ret.alerts[k].alert_type
                       \in {"TARGET_HIT", "STOP_HIT", "EXPIRING_SOON"}

\* C10 witness: an update met a position whose price is at or above its
\* target and at or below its stop, and whose stored current_price is not
\* the price compared.
C10_Witness ==
    /\ ret.op = "update" /\ ret.outcome = "returned"
    /\ \E i \in 1..Len(portfolio) :
          /\ ret.prices[i] >= portfolio[i].target_price
          /\ ret.prices[i] <= portfolio[i].stop_price
          /\ portfolio[i].current_price # ret.prices[i]
          /\ HasAlert(i, "TARGET_HIT")

\* C11: close_position(id, exit_price, reason) on an open id returns a
\* ClosedTrade; it removes exactly that position from the open set and
\* appends exactly that one record, with that id, to the history;
\* pnl_dollars = exit_price * contracts * 100 - cost_basis; result is WIN,
\* LOSS or BREAKEVEN by the sign of pnl_dollars (so exit_price < entry_price
\* gives LOSS and pnl_dollars < 0); afterwards the id is absent from the open
\* set and once in the history; everything else is unchanged.
C11_CloseMovesOne ==
    [][(CloseStep /\ FirstIndex(portfolio, ret'.id) # 0)
          => LET i == FirstIndex(portfolio, ret'.id)
                 position == portfolio[i]
                 pnl == ret'.exit_price * position.contracts * OptionMultiplier
                            - position.cost_basis
             IN  /\ ret'.outcome = "returned"
                 /\ Len(ret'.closed) = 1
                 /\ portfolio' = Pop(portfolio, i)
                 /\ history' = Append(history, ret'.closed[1])
                 /\ ret'.closed[1].id = ret'.id
                 /\ ret'.closed[1].pnl_dollars = pnl
                 /\ ret'.closed[1].result =
                        (IF pnl > 0 THEN "WIN"
                         ELSE IF pnl < 0 THEN "LOSS" ELSE "BREAKEVEN")
                 /\ (ret'.exit_price < position.entry_price
                        => (/\ ret'.closed[1].result = "LOSS"
                            /\ ret'.closed[1].pnl_dollars < 0))
                 /\ \A k \in 1..Len(portfolio') : portfolio'[k].id # ret'.id
                 /\ Cardinality({k \in 1..Len(history') :
                                    history'[k].id = ret'.id}) = 1]_vars

\* C12: every open position has status OPEN, and the terminal state recorded
\* for a closed one is EXPIRED when it was closed with exit_reason EXPIRED,
\* whatever its P&L, and otherwise WIN or LOSS by the sign of its P&L.
C12_Lifecycle ==
    /\ \A i \in 1..Len(portfolio) : portfolio[i].status = "OPEN"
    /\ \A k \in 1..Len(history) :
          /\ history[k].result \in {"WIN", "LOSS", "EXPIRED"}
          /\ history[k].exit_reason = "EXPIRED" <=> history[k].result = "EXPIRED"
          /\ history[k].exit_reason # "EXPIRED"
                => history[k].result =
                      (IF history[k].pnl_dollars > 0 THEN "WIN" ELSE "LOSS")

\* ============================================================ analysis.py
\* The signal engine.  Scores are in tenths of a point (10 points = 100);
\* prices, moving averages, band widths and the ATR are in units of $0.0001;
\* RSI, ADX and VIX in whole points; relative volume in tenths; the 50-bar
\* mean of the band width and the SPY change in percent and tenths of a
\* percent.  A DataFrame is modelled by the cells the engine reads: the
\* inputs of calculate_indicators' last row, the previous row's Close and
\* MACD_Hist, and the Low column of the last bars.

\* The value of a rolling window that is not full, and of 0/0.
NaN == -999999999

IsNaN(x) == x = NaN

\* Comparisons with NaN are False.
Gt(a, b) == ~IsNaN(a) /\ ~IsNaN(b) /\ a > b

Lt(a, b) == ~IsNaN(a) /\ ~IsNaN(b) /\ a < b

\* Arithmetic with NaN is NaN.
Plus(a, b) == IF IsNaN(a) \/ IsNaN(b) THEN NaN ELSE a + b

Minus(a, b) == IF IsNaN(a) \/ IsNaN(b) THEN NaN ELSE a - b

Abs(x) == IF IsNaN(x) THEN NaN ELSE IF x < 0 THEN -x ELSE x

Min(a, b) == IF a < b THEN a ELSE b

\* round(x, 2) of a level; round(nan, 2) is nan.
RoundLevel(x) == IF IsNaN(x) THEN NaN ELSE Round2(x)

\* calculate_indicators, lines 76 and 95-100: the columns derived from the
\* others.  BB_Middle is the same rolling mean as SMA_20.
MACD_Hist(df) == Minus(df.MACD, df.MACD_Signal)

BB_Middle(df) == df.SMA_20

BB_Upper(df) ==
    IF IsNaN(df.BB_Std) THEN NaN ELSE Plus(BB_Middle(df), df.BB_Std * 2)

BB_Lower(df) ==
    IF IsNaN(df.BB_Std) THEN NaN ELSE Minus(BB_Middle(df), df.BB_Std * 2)

\* A quotient kept as numerator and denominator (the denominators here are
\* never negative); x/0 is +inf or -inf by the sign of x, and 0/0 is NaN.
Quotient(n, d) ==
    IF IsNaN(n) \/ IsNaN(d) THEN [nan |-> TRUE, num |-> 0, den |-> 1]
    ELSE IF d = 0 /\ n = 0 THEN [nan |-> TRUE, num |-> 0, den |-> 1]
    ELSE [nan |-> FALSE, num |-> n, den |-> d]

\* q < a/b and q > a/b, for b > 0.
QLt(q, a, b) == ~q.nan /\ q.num * b < a * q.den

QGt(q, a, b) == ~q.nan /\ q.num * b > a * q.den

BB_Width(df) == Quotient(Minus(BB_Upper(df), BB_Lower(df)), BB_Middle(df))

BB_Position(df) ==
    Quotient(Minus(df.Close, BB_Lower(df)), Minus(BB_Upper(df), BB_Lower(df)))

\* Mutant: a price equal to a moving average counted as above it.
TrendBeforeClamp_AtOrAbove(df) ==
    LET price == df.Close
        above(sma) == IF ~IsNaN(sma) /\ price >= sma THEN 100 ELSE -100
        vs_mas == above(df.SMA_20) + above(df.SMA_50) + above(df.SMA_200)
        aligned ==
            IF Gt(df.SMA_20, df.SMA_50) /\ Gt(df.SMA_50, df.SMA_200)
            THEN vs_mas + 150
            ELSE IF Lt(df.SMA_20, df.SMA_50) /\ Lt(df.SMA_50, df.SMA_200)
            THEN vs_mas - 150
            ELSE vs_mas
    IN  IF Gt(df.ADX, 25) THEN (aligned * 12) \div 10
        ELSE IF Lt(df.ADX, 20) THEN (aligned * 7) \div 10
        ELSE aligned

\* analyze_trend, lines 196-240: the score before the clamp of line 242.
TrendBeforeClamp(df) ==
    LET price == df.Close
        above(sma) == IF Gt(price, sma) THEN 100 ELSE -100
        vs_mas == above(df.SMA_20) + above(df.SMA_50) + above(df.SMA_200)
        aligned ==
            IF Gt(df.SMA_20, df.SMA_50) /\ Gt(df.SMA_50, df.SMA_200)
            THEN vs_mas + 150
            ELSE IF Lt(df.SMA_20, df.SMA_50) /\ Lt(df.SMA_50, df.SMA_200)
            THEN vs_mas - 150
            ELSE vs_mas
    IN  IF Gt(df.ADX, 25) THEN (aligned * 12) \div 10
        ELSE IF Lt(df.ADX, 20) THEN (aligned * 7) \div 10
        ELSE aligned

\* Mutant: the trend score returned without the clamp.
analyze_trend_unclamped(df) == TrendBeforeClamp(df)

\* analyze_trend, lines 188-242.
analyze_trend(df) == Min(Max(TrendBeforeClamp(df), -500), 500)

\* analyze_momentum, lines 245-292.
analyze_momentum(df) ==
    LET rsi == df.RSI
        by_rsi == IF Lt(rsi, 30) THEN 150
                  ELSE IF Gt(rsi, 70) THEN -150
                  ELSE IF ~IsNaN(rsi) /\ 40 <= rsi /\ rsi <= 60 THEN 0
                  ELSE IF Gt(rsi, 50) THEN 50
                  ELSE -50
        by_macd == IF Gt(df.MACD, df.MACD_Signal) THEN 100 ELSE -100
        by_hist == IF Gt(MACD_Hist(df), df.PrevMACD_Hist) THEN 50 ELSE -50
    IN  Min(Max(by_rsi + by_macd + by_hist, -300), 300)

\* analyze_volume, lines 295-319.  price_change is
\* (Close - previous Close) / previous Close, with the previous Close > 0.
analyze_volume(df) ==
    LET rel_vol == df.Relative_Volume
        price_change == Quotient(Minus(df.Close, df.PrevClose), df.PrevClose)
        score == IF Gt(rel_vol, 15)
                 THEN (IF QGt(price_change, 0, 1) THEN 100 ELSE -100)
                 ELSE 0
    IN  Min(Max(score, -100), 100)

\* analyze_volatility, lines 322-358: the score and the regime.
analyze_volatility(df) ==
    LET bb_position == BB_Position(df)
        bb_width == BB_Width(df)
        by_band ==
            IF QLt(bb_position, 1, 10) THEN [score |-> 100, regime |-> "oversold"]
            ELSE IF QGt(bb_position, 9, 10)
            THEN [score |-> -50, regime |-> "overbought"]
            ELSE [score |-> 0, regime |-> "normal"]
        \* bb_width < mean * 0.8, the mean in percent
        squeeze == /\ ~IsNaN(df.BB_Width_Mean50)
                   /\ QLt(bb_width, df.BB_Width_Mean50 * 8, 1000)
    IN  [score |-> by_band.score,
         regime |-> IF squeeze THEN "squeeze" ELSE by_band.regime]

\* find_support_resistance, lines 143-185: the swing lows of the recent
\* bars (lower than the two bars on each side), and the two supports
\* generate_signal reads.  The resistances are computed the same way from
\* the highs.
SwingLows(low) ==
    {i \in 3..(Len(low) - 2) :
        /\ low[i] < low[i - 1] /\ low[i] < low[i - 2]
        /\ low[i] < low[i + 1] /\ low[i] < low[i + 2]}

Highest(low, among) ==
    CHOOSE i \in among : \A j \in among : low[j] <= low[i]

\* Lines 150-157: the swing highs, higher than the two bars on each side.
SwingHighs(high) ==
    {i \in 3..(Len(high) - 2) :
        /\ high[i] > high[i - 1] /\ high[i] > high[i - 2]
        /\ high[i] > high[i + 1] /\ high[i] > high[i + 2]}

Lowest(high, among) ==
    CHOOSE i \in among : \A j \in among : high[i] <= high[j]

\* Lines 166-174: sorted() keeps equal values, so the second level is the
\* next element of the sorted list, equal to the first when a value occurs
\* twice.
find_support_resistance(df, current_price) ==
    LET below == {i \in SwingLows(df.Low) : df.Low[i] < current_price}
        rest == below \ {Highest(df.Low, below)}
        support_1 == IF below = {} THEN (current_price * 95) \div 100
                     ELSE df.Low[Highest(df.Low, below)]
        support_2 == IF below = {} \/ rest = {} THEN (support_1 * 97) \div 100
                     ELSE df.Low[Highest(df.Low, rest)]
        above == {i \in SwingHighs(df.High) : df.High[i] > current_price}
        others == above \ {Lowest(df.High, above)}
        resistance_1 == IF above = {} THEN (current_price * 105) \div 100
                        ELSE df.High[Lowest(df.High, above)]
        resistance_2 == IF above = {} \/ others = {}
                        THEN (resistance_1 * 103) \div 100
                        ELSE df.High[Lowest(df.High, others)]
    IN  [support_1 |-> support_1, support_2 |-> support_2,
         resistance_1 |-> resistance_1, resistance_2 |-> resistance_2]

\* get_market_context, lines 361-379.
get_market_context(market) ==
    IF market.kind = "raise" THEN [risk_on |-> TRUE]
    ELSE [risk_on |-> (market.vix < 20 /\ market.spy_change > -5)]

\* atr * 1.5, atr * 3, atr * 4.5
Times15(atr) == IF IsNaN(atr) THEN NaN ELSE (atr * 3) \div 2

Times3(atr) == IF IsNaN(atr) THEN NaN ELSE atr * 3

Times45(atr) == IF IsNaN(atr) THEN NaN ELSE (atr * 9) \div 2

\* Mutant: the moderately bearish test placed before the strongly bearish.
Classify_BearishOrder(total_score, price, sma_20, vol_regime, levels) ==
    IF total_score >= 400
    THEN IF Lt(price, sma_20)
         THEN [signal |-> "BUY_NOW", entry_type |-> "pullback",
               entry_price |-> price, warnings |-> <<>>]
         ELSE [signal |-> "BUY_PULLBACK", entry_type |-> "pullback",
               entry_price |-> levels.support_1, warnings |-> <<>>]
    ELSE IF total_score >= 200
    THEN IF vol_regime = "oversold"
         THEN [signal |-> "BUY_NOW", entry_type |-> "mean_reversion",
               entry_price |-> price, warnings |-> <<>>]
         ELSE [signal |-> "BUY_PULLBACK", entry_type |-> "pullback",
               entry_price |-> levels.support_1, warnings |-> <<>>]
    ELSE IF total_score <= -200
    THEN [signal |-> "WAIT", entry_type |-> "none",
          entry_price |-> levels.support_2, warnings |-> <<"BEARISH_BIAS">>]
    ELSE IF total_score <= -400
    THEN [signal |-> "SELL", entry_type |-> "breakdown",
          entry_price |-> price, warnings |-> <<>>]
    ELSE [signal |-> "WAIT", entry_type |-> "none",
          entry_price |-> levels.support_1, warnings |-> <<"NO_EDGE">>]

\* generate_signal, lines 415-458: signal type and entry.
Classify(total_score, price, sma_20, vol_regime, levels) ==
    IF total_score >= 400
    THEN IF Lt(price, sma_20)
         THEN [signal |-> "BUY_NOW", entry_type |-> "pullback",
               entry_price |-> price, warnings |-> <<>>]
         ELSE [signal |-> "BUY_PULLBACK", entry_type |-> "pullback",
               entry_price |-> levels.support_1, warnings |-> <<>>]
    ELSE IF total_score >= 200
    THEN IF vol_regime = "oversold"
         THEN [signal |-> "BUY_NOW", entry_type |-> "mean_reversion",
               entry_price |-> price, warnings |-> <<>>]
         ELSE [signal |-> "BUY_PULLBACK", entry_type |-> "pullback",
               entry_price |-> levels.support_1, warnings |-> <<>>]
    ELSE IF total_score <= -400
    THEN [signal |-> "SELL", entry_type |-> "breakdown",
          entry_price |-> price, warnings |-> <<>>]
    ELSE IF total_score <= -200
    THEN [signal |-> "WAIT", entry_type |-> "none",
          entry_price |-> levels.support_2, warnings |-> <<"BEARISH_BIAS">>]
    ELSE [signal |-> "WAIT", entry_type |-> "none",
          entry_price |-> levels.support_1, warnings |-> <<"NO_EDGE">>]

\* Mutant: stops and targets of SELL and WAIT placed around the entry.
StopsAndTargets_AroundEntry(signal, entry_price, price, atr) ==
    IF signal \in {"BUY_NOW", "BUY_PULLBACK"}
    THEN [stop_loss |-> Minus(entry_price, Times15(atr)),
          target_1 |-> Plus(entry_price, Times3(atr)),
          target_2 |-> Plus(entry_price, Times45(atr))]
    ELSE [stop_loss |-> Plus(entry_price, Times15(atr)),
          target_1 |-> Minus(entry_price, Times3(atr)),
          target_2 |-> Minus(entry_price, Times45(atr))]

\* Mutant: the bullish stop measured from the price, not from the entry.
StopsAndTargets_StopFromPrice(signal, entry_price, price, atr) ==
    IF signal \in {"BUY_NOW", "BUY_PULLBACK"}
    THEN [stop_loss |-> Minus(price, Times15(atr)),
          target_1 |-> Plus(entry_price, Times3(atr)),
          target_2 |-> Plus(entry_price, Times45(atr))]
    ELSE [stop_loss |-> Plus(price, Times15(atr)),
          target_1 |-> Minus(price, Times3(atr)),
          target_2 |-> Minus(price, Times45(atr))]

\* generate_signal, lines 460-469: stops and targets from the ATR.
StopsAndTargets(signal, entry_price, price, atr) ==
    IF signal \in {"BUY_NOW", "BUY_PULLBACK"}
    THEN [stop_loss |-> Minus(entry_price, Times15(atr)),
          target_1 |-> Plus(entry_price, Times3(atr)),
          target_2 |-> Plus(entry_price, Times45(atr))]
    ELSE [stop_loss |-> Plus(price, Times15(atr)),
          target_1 |-> Minus(price, Times3(atr)),
          target_2 |-> Minus(price, Times45(atr))]

\* Mutant: the downgrade skipped when no risk could be computed.
Downgrade_OnlyWithRisk(signal, risk_reward, risk) ==
    Gt(risk, 0) /\ QLt(risk_reward, 18, 10) /\ signal = "BUY_NOW"

\* generate_signal, line 476: the downgrade test.
Downgrade(signal, risk_reward, risk) ==
    QLt(risk_reward, 18, 10) /\ signal = "BUY_NOW"

\* Mutant: the risk-off adjustment taken as 20 points.
Composite_Penalty20(trend, momentum, volume, volatility, risk_on) ==
    trend + momentum + volume + volatility - (IF risk_on THEN 0 ELSE 200)

\* generate_signal, lines 404-410: the composite score.
Composite(trend, momentum, volume, volatility, risk_on) ==
    LET total_score == trend + momentum + volume + volatility
    IN  IF ~risk_on THEN total_score - 100 ELSE total_score

\* generate_signal, lines 382-496.  `locals` keeps the values of the local
\* variables at line 473, before the downgrade and before the rounding of
\* the returned fields; warnings are kept by kind; the reasons, which are
\* display text, are left out.
generate_signal(df, market) ==
    LET price == df.Close
        atr == df.ATR
        trend_score == analyze_trend(df)
        momentum_score == analyze_momentum(df)
        volume_score == analyze_volume(df)
        volatility == analyze_volatility(df)
        levels == find_support_resistance(df, price)
        context == get_market_context(market)
        total_score == Composite(trend_score, momentum_score, volume_score,
                                 volatility.score, context.risk_on)
        c == Classify(total_score, price, df.SMA_20, volatility.regime, levels)
        st == StopsAndTargets(c.signal, c.entry_price, price, atr)
        risk == Abs(Minus(c.entry_price, st.stop_loss))
        reward == Abs(Minus(st.target_1, c.entry_price))
        risk_reward == IF Gt(risk, 0) THEN Quotient(reward, risk)
                       ELSE Quotient(0, 1)
        down == Downgrade(c.signal, risk_reward, risk)
    IN  [score |-> total_score,
         trend_score |-> trend_score,
         momentum_score |-> momentum_score,
         volume_score |-> volume_score,
         volatility_score |-> volatility.score,
         signal |-> IF down THEN "BUY_PULLBACK" ELSE c.signal,
         entry_type |-> c.entry_type,
         entry_price |-> RoundLevel(c.entry_price),
         stop_loss |-> RoundLevel(st.stop_loss),
         target_1 |-> RoundLevel(st.target_1),
         target_2 |-> RoundLevel(st.target_2),
         risk_reward |-> RoundDiv(risk_reward.num * 100, risk_reward.den),
         warnings |-> c.warnings \o (IF down THEN <<"RR_DOWNGRADE">> ELSE <<>>),
         locals |-> [signal |-> c.signal,
                     entry_price |-> c.entry_price,
                     stop_loss |-> st.stop_loss,
                     target_1 |-> st.target_1,
                     target_2 |-> st.target_2,
                     risk |-> risk,
                     reward |-> reward,
                     risk_reward |-> risk_reward,
                     risk_on |-> context.risk_on,
                     vol_regime |-> volatility.regime,
                     levels |-> levels]]

\* ------------------------------------------------------- engine inputs
\* One bar at $100 with quiet indicators; the input sets vary its cells.
BaseBar ==
    [Close |-> 1000000, PrevClose |-> 1000000,
     SMA_20 |-> 1000000, SMA_50 |-> 1000000, SMA_200 |-> 1000000,
     ADX |-> 22, RSI |-> 50,
     MACD |-> 0, MACD_Signal |-> 5, PrevMACD_Hist |-> 0,
     Relative_Volume |-> 10,
     BB_Std |-> 20000, BB_Width_Mean50 |-> 2,
     ATR |-> 20000,
     Low |-> <<>>, High |-> <<>>]

TrendRows ==
    {[BaseBar EXCEPT !.SMA_20 = a, !.SMA_50 = b, !.SMA_200 = c, !.ADX = x] :
        a \in {NaN, 990000, 1000000, 1010000},
        b \in {NaN, 980000, 1020000},
        c \in {NaN, 970000, 1030000},
        x \in {NaN, 15, 22, 30}}
    \cup {[BaseBar EXCEPT !.Close = 1100000, !.SMA_20 = 1000000,
                          !.SMA_50 = 950000, !.SMA_200 = 900000, !.ADX = x] :
             x \in {15, 22, 30}}

MomentumRows ==
    {[BaseBar EXCEPT !.RSI = r, !.MACD = m, !.PrevMACD_Hist = h] :
        r \in {NaN, 25, 35, 50, 65, 75},
        m \in {NaN, 0, 10},
        h \in {-10, 10}}

VolumeRows ==
    {[BaseBar EXCEPT !.Relative_Volume = v, !.PrevClose = p] :
        v \in {NaN, 5, 10, 20},
        p \in {990000, 1000000, 1010000}}

VolatilityRows ==
    {[BaseBar EXCEPT !.SMA_20 = a, !.BB_Std = s, !.BB_Width_Mean50 = w] :
        a \in {NaN, 990000, 1000000, 1010000},
        s \in {NaN, 0, 5000, 20000},
        w \in {NaN, 2, 20}}

MarketRows ==
    { [kind |-> "raise", vix |-> 0, spy_change |-> 0],
      [kind |-> "ok", vix |-> 15, spy_change |-> 0],
      [kind |-> "ok", vix |-> 15, spy_change |-> -10],
      [kind |-> "ok", vix |-> 25, spy_change |-> 0] }

\* The Low column: no swing low; one at 95; two, at 94 and at 96.
LowSeries ==
    { <<>>,
      <<990000, 980000, 950000, 980000, 990000>>,
      <<990000, 980000, 940000, 980000, 990000, 960000, 980000, 990000>> }

\* The bars generate_signal is called on: every branch of the four scorers
\* in combination, with a missing, a zero, a $2 and a $2.01 ATR.
SignalBars ==
    {[BaseBar EXCEPT !.SMA_20 = a, !.SMA_50 = slow[1], !.SMA_200 = slow[2],
                     !.ADX = x, !.RSI = r, !.MACD = m,
                     !.Relative_Volume = v[1], !.PrevClose = v[2],
                     !.BB_Std = s, !.BB_Width_Mean50 = w,
                     !.ATR = t, !.Low = low] :
        a \in {NaN, 990000, 1010000},
        slow \in {<<980000, 970000>>, <<1020000, 1030000>>},
        x \in {15, 30},
        r \in {25, 50, 75},
        m \in {0, 10},
        v \in {<<10, 990000>>, <<20, 990000>>, <<20, 1010000>>},
        s \in {5000, 20000},
        w \in {2, 20},
        t \in {NaN, 0, 20000, 20100},
        low \in LowSeries}

SignalMarkets == {m \in MarketRows : m.spy_change = 0}

Asked(fn, input) == [phase |-> "asked", fn |-> fn, input |-> input]

Answered(out) ==
    [phase |-> "answered", fn |-> sig.fn, input |-> sig.input, out |-> out]

\* --------------------------------------------------------- engine calls
call_analyze_trend ==
    /\ sig.phase = "asked" /\ sig.fn = "analyze_trend"
    /\ sig' = Answered(analyze_trend(sig.input))
    /\ UNCHANGED <<ledger_vars, gen>>

call_analyze_momentum ==
    /\ sig.phase = "asked" /\ sig.fn = "analyze_momentum"
    /\ sig' = Answered(analyze_momentum(sig.input))
    /\ UNCHANGED <<ledger_vars, gen>>

call_analyze_volume ==
    /\ sig.phase = "asked" /\ sig.fn = "analyze_volume"
    /\ sig' = Answered(analyze_volume(sig.input))
    /\ UNCHANGED <<ledger_vars, gen>>

call_analyze_volatility ==
    /\ sig.phase = "asked" /\ sig.fn = "analyze_volatility"
    /\ sig' = Answered(analyze_volatility(sig.input))
    /\ UNCHANGED <<ledger_vars, gen>>

call_get_market_context ==
    /\ sig.phase = "asked" /\ sig.fn = "get_market_context"
    /\ sig' = Answered(get_market_context(sig.input))
    /\ UNCHANGED <<ledger_vars, gen>>

call_generate_signal ==
    /\ sig.phase = "asked" /\ sig.fn = "generate_signal"
    /\ sig' = Answered(generate_signal(sig.input.df, sig.input.market))
    /\ UNCHANGED <<ledger_vars, gen>>

InitSignal ==
    /\ portfolio = <<>>
    /\ history = <<>>
    /\ now = 0
    /\ issued = <<>>
    /\ ret = NoRet
    /\ pc = [p \in Procs |-> "idle"]
    /\ loc = [p \in Procs |-> <<>>]
    /\ done = {}
    /\ gen = NoGen
    /\ sig \in {Asked("analyze_trend", df) : df \in TrendRows}
            \cup {Asked("analyze_momentum", df) : df \in MomentumRows}
            \cup {Asked("analyze_volume", df) : df \in VolumeRows}
            \cup {Asked("analyze_volatility", df) : df \in VolatilityRows}
            \cup {Asked("get_market_context", m) : m \in MarketRows}
            \cup {Asked("generate_signal", [df |-> df, market |-> m]) :
                    df \in SignalBars, m \in SignalMarkets}

NextSignal ==
    \/ call_analyze_trend
    \/ call_analyze_momentum
    \/ call_analyze_volume
    \/ call_analyze_volatility
    \/ call_get_market_context
    \/ call_generate_signal

SpecSignal == InitSignal /\ [][NextSignal]_vars

\* ------------------------------------------------- claims on the engine
SignalAnswered == sig.phase = "answered" /\ sig.fn = "generate_signal"

\* C13: no SignalScore returned by generate_signal has signal BUY_NOW with
\* risk_reward < 1.8, whatever the price, the ATR (zero and undefined
\* included), the supports, the sub-scores and the market context; whenever
\* the signal before the downgrade is BUY_NOW and its risk_reward < 1.8, the
\* returned signal is BUY_PULLBACK and a warning is appended.
C13_NoBuyNowBelowRR ==
    SignalAnswered
        => /\ ~(sig.out.signal = "BUY_NOW" /\ sig.out.risk_reward < 180)
           /\ (/\ sig.out.locals.signal = "BUY_NOW"
               /\ \/ ~Gt(sig.out.locals.risk, 0)
                  \/ sig.out.locals.reward * 10 < 18 * sig.out.locals.risk)
                 => (/\ sig.out.signal = "BUY_PULLBACK"
                     /\ Len(sig.out.warnings) > 0
                     /\ sig.out.warnings[Len(sig.out.warnings)] = "RR_DOWNGRADE")

\* C13 witness: a signal that was BUY_NOW with an ATR of zero (no risk, so
\* risk_reward 0) came back as BUY_PULLBACK with the warning.
C13_Witness ==
    /\ SignalAnswered
    /\ sig.input.df.ATR = 0
    /\ sig.out.locals.signal = "BUY_NOW"
    /\ sig.out.signal = "BUY_PULLBACK"
    /\ sig.out.risk_reward = 0
    /\ sig.out.warnings = <<"RR_DOWNGRADE">>

\* C14: the composite score of every SignalScore returned by generate_signal
\* is in [-100, 100], in risk-on and in risk-off markets (after the -10).
C14_CompositeInRange ==
    SignalAnswered => (sig.out.score >= -1000 /\ sig.out.score <= 1000)

\* C14 witness: a risk-off signal whose score is exactly -100: trend -50,
\* momentum -30, volume -10, volatility 0, less 10.
C14_Witness ==
    /\ SignalAnswered
    /\ ~sig.out.locals.risk_on
    /\ sig.out.score = -1000
    /\ sig.out.trend_score = -500
    /\ sig.out.momentum_score = -300
    /\ sig.out.volume_score = -100

\* C15: for every indicator input the sub-scores are bounded: trend in
\* [-50, 50], momentum in [-30, 30], volume in [-10, 10], volatility in
\* [-10, 10]; so the absolute value of their sum is at most 120.
C15_SubScoresBounded ==
    sig.phase = "answered"
        => /\ sig.fn = "analyze_trend" => (sig.out >= -500 /\ sig.out <= 500)
           /\ sig.fn = "analyze_momentum" => (sig.out >= -300 /\ sig.out <= 300)
           /\ sig.fn = "analyze_volume" => (sig.out >= -100 /\ sig.out <= 100)
           /\ sig.fn = "analyze_volatility"
                 => (sig.out.score >= -100 /\ sig.out.score <= 100)
           /\ sig.fn = "generate_signal"
                 => /\ sig.out.trend_score \in -500..500
                    /\ sig.out.momentum_score \in -300..300
                    /\ sig.out.volume_score \in -100..100
                    /\ sig.out.volatility_score \in -100..100
                    /\ Abs(sig.out.trend_score + sig.out.momentum_score
                             + sig.out.volume_score + sig.out.volatility_score)
                          <= 1200

\* C15 witness: analyze_trend answered 50 for a bar whose score before the
\* clamp was 54 (above all three averages, aligned, ADX above 25).
C15_Witness ==
    /\ sig.phase = "answered" /\ sig.fn = "analyze_trend"
    /\ TrendBeforeClamp(sig.input) = 540
    /\ sig.out = 500

\* C16: signal and entry are decided from the adjusted total score, first
\* match first: total >= 40, BUY_NOW at the price if price < SMA20, else
\* BUY_PULLBACK at support_1; 20 <= total < 40, BUY_NOW at the price if the
\* volatility regime is oversold, else BUY_PULLBACK at support_1;
\* total <= -40, SELL; -40 < total <= -20, WAIT at support_2; otherwise WAIT
\* at support_1.  The returned signal is one of the four, BUY_* exactly when
\* total >= 20.
C16_Thresholds ==
    SignalAnswered
        => LET total == sig.out.score
               price == sig.input.df.Close
               levels == find_support_resistance(sig.input.df, price)
               oversold == analyze_volatility(sig.input.df).regime = "oversold"
               signal == sig.out.locals.signal
               entry == sig.out.locals.entry_price
           IN  /\ total >= 400 /\ Lt(price, sig.input.df.SMA_20)
                     => (signal = "BUY_NOW" /\ entry = price)
               /\ total >= 400 /\ ~Lt(price, sig.input.df.SMA_20)
                     => (signal = "BUY_PULLBACK" /\ entry = levels.support_1)
               /\ total >= 200 /\ total < 400 /\ oversold
                     => (signal = "BUY_NOW" /\ entry = price)
               /\ total >= 200 /\ total < 400 /\ ~oversold
                     => (signal = "BUY_PULLBACK" /\ entry = levels.support_1)
               /\ total <= -400 => signal = "SELL"
               /\ total > -400 /\ total <= -200
                     => (signal = "WAIT" /\ entry = levels.support_2)
               /\ total > -200 /\ total < 200
                     => (signal = "WAIT" /\ entry = levels.support_1)
               /\ sig.out.entry_price = Round2(entry)
               /\ sig.out.signal \in {"BUY_NOW", "BUY_PULLBACK", "SELL", "WAIT"}
               /\ total >= 200 <=> sig.out.signal \in {"BUY_NOW", "BUY_PULLBACK"}
               /\ total < 200 <=> sig.out.signal \in {"SELL", "WAIT"}

\* C16 witness: a total in (-40, -20] answered WAIT with the entry at the
\* second swing low below the price.
C16_Witness ==
    /\ SignalAnswered
    /\ sig.out.score > -400 /\ sig.out.score <= -200
    /\ sig.out.signal = "WAIT"
    /\ Len(sig.input.df.Low) > 5
    /\ sig.out.entry_price = 940000
    /\ sig.out.warnings = <<"BEARISH_BIAS">>

\* C17: for BUY_NOW and BUY_PULLBACK with ATR > 0, stop_loss = entry -
\* 1.5 ATR, target_1 = entry + 3 ATR, target_2 = entry + 4.5 ATR, so
\* stop_loss < entry < target_1 < target_2 (entry 100, ATR 2: 97, 106, 109,
\* risk_reward 2.0); for SELL and WAIT the levels are around the price, not
\* the entry: stop_loss = price + 1.5 ATR, target_1 = price - 3 ATR,
\* target_2 = price - 4.5 ATR; risk_reward is |target_1 - entry| over
\* |entry - stop_loss|.  The SignalScore carries each to 2 decimals.
C17_StopsAndTargets ==
    SignalAnswered
        => LET l == sig.out.locals
               price == sig.input.df.Close
               atr == sig.input.df.ATR
               bullish == sig.out.signal \in {"BUY_NOW", "BUY_PULLBACK"}
           IN  /\ bullish /\ Gt(atr, 0)
                     => /\ 2 * l.stop_loss = 2 * l.entry_price - 3 * atr
                        /\ l.target_1 = l.entry_price + 3 * atr
                        /\ 2 * l.target_2 = 2 * l.entry_price + 9 * atr
                        /\ l.stop_loss < l.entry_price
                        /\ l.entry_price < l.target_1
                        /\ l.target_1 < l.target_2
               /\ bullish /\ l.entry_price = 1000000 /\ atr = 20000
                     => /\ sig.out.stop_loss = 970000
                        /\ sig.out.target_1 = 1060000
                        /\ sig.out.target_2 = 1090000
                        /\ sig.out.risk_reward = 200
               /\ ~bullish /\ ~IsNaN(atr)
                     => /\ 2 * l.stop_loss = 2 * price + 3 * atr
                        /\ l.target_1 = price - 3 * atr
                        /\ 2 * l.target_2 = 2 * price - 9 * atr
               /\ ~IsNaN(atr) /\ l.entry_price # l.stop_loss
                     => sig.out.risk_reward =
                           RoundDiv(Abs(l.target_1 - l.entry_price) * 100,
                                    Abs(l.entry_price - l.stop_loss))
               /\ sig.out.stop_loss = RoundLevel(l.stop_loss)
               /\ sig.out.target_1 = RoundLevel(l.target_1)
               /\ sig.out.target_2 = RoundLevel(l.target_2)

\* C17 witness: a WAIT whose entry is a support below the price and whose
\* stop is 1.5 ATR above the price, and not above the entry.
C17_Witness ==
    /\ SignalAnswered
    /\ sig.out.signal = "WAIT"
    /\ sig.input.df.ATR = 20000
    /\ sig.out.entry_price = 960000
    /\ sig.out.stop_loss = 1030000
    /\ sig.out.target_1 = 940000
    /\ sig.out.risk_reward = 29


\* ---------------------------------------------------------------------
\* options_trades.py: the option chain, the two filter passes, the score
\* of a candidate and the trade built from the best one.  Prices are in
\* $0.0001 as in the ledger; a chain row is [strike, bid, ask].
\* ---------------------------------------------------------------------

\* The longest chain and the longest watchlist explored.
MaxChain == 2

MaxTickers == 3

\* The stock's last price: $100, the Close of the bars of SignalBars.
StockPrice == 1000000

\* The lookup of a chain, lines 60-86: it raises, or it knows no
\* expiration, or it returns the rows of the expiration closest to three
\* weeks from now.  Expirations are days counted from today's midnight and
\* now is later than midnight, so that (exp_date - target_date).days is
\* exp - 22 and (exp_date - now).days is exp - 1.
get_options_chain(q) ==
    IF q.fetch = "raise" THEN [kind |-> "raised", error |-> "fetch"]
    ELSE IF q.expirations = <<>> THEN [kind |-> "none"]
    ELSE LET diff(k) == Abs(q.expirations[k] - 22)
             best_exp ==
                 CHOOSE k \in 1..Len(q.expirations) :
                     \A j \in 1..Len(q.expirations) :
                         diff(k) < diff(j) \/ (diff(k) = diff(j) /\ k <= j)
         IN  [kind |-> "chain", rows |-> q.rows,
              dte |-> q.expirations[best_exp] - 1]

\* The truth value pandas gives a float operand of "&" next to a boolean
\* one: NaN is False, every other non-zero value (an infinity too) is True.
Truthy(q) == ~q.nan /\ q.num # 0

\* lo% of the price <= strike <= hi% of the price.
InBand(row, stock_price, lo, hi) ==
    /\ row.strike * 100 >= stock_price * lo
    /\ row.strike * 100 <= stock_price * hi

\* find_best_call, lines 105-110.  "&" binds tighter than "<", so the mask
\* is (band & liquid & spread) < 0.15, with the spread fraction taken as a
\* truth value: a row is kept exactly when the conjunction is False.
CallFirstPass(row, stock_price) ==
    ~(/\ InBand(row, stock_price, 98, 105)
      /\ row.bid > 1000
      /\ Truthy(Quotient(row.ask - row.bid, row.ask)))

\* find_best_call, lines 114-118.
CallWidened(row, stock_price) ==
    InBand(row, stock_price, 95, 110) /\ row.bid > 500

\* find_best_put, lines 236-240 and 243-247.
PutFirstPass(row, stock_price) ==
    InBand(row, stock_price, 95, 102) /\ row.bid > 1000

PutWidened(row, stock_price) ==
    InBand(row, stock_price, 90, 105) /\ row.bid > 500

\* The three terms of a score, in hundredths of a point, each rounded down:
\* rr * 10 with rr = (value_at_target - mid) / mid or 0 when mid is 0,
\* spread_pct * 20 with spread_pct 1 when ask is 0, distance_from_atm * 10.
RewardTerm(row, value_at_target) ==
    IF row.bid + row.ask > 0
    THEN ((2 * value_at_target - (row.bid + row.ask)) * 1000)
             \div (row.bid + row.ask)
    ELSE 0

SpreadTerm(row) ==
    IF row.ask > 0 THEN ((row.ask - row.bid) * 2000) \div row.ask ELSE 2000

DistanceTerm(row, stock_price) ==
    (Abs(row.strike - stock_price) * 1000) \div stock_price

\* score_option, lines 124-152.
score_option(row, stock_price, target_price) ==
    RewardTerm(row, Max(0, target_price - row.strike))
        - SpreadTerm(row) - DistanceTerm(row, stock_price)

\* score_put, lines 253-267.
score_put(row, target_price) ==
    RewardTerm(row, Max(0, row.strike - target_price)) - SpreadTerm(row)

\* idxmax, lines 155 and 270: the first of the candidates with the
\* greatest score.
idxmax(candidates, score) ==
    CHOOSE k \in candidates :
        \A j \in candidates :
            score[k] > score[j] \/ (score[k] = score[j] /\ k <= j)


\* Lines 185-191: the confidence of a call, from risk_reward in tenths and
\* the signal's score in tenths of a point.
call_confidence(rr, signal) ==
    IF rr >= 20 /\ signal.score >= 400 THEN "HIGH"
    ELSE IF rr >= 15 /\ signal.score >= 200 THEN "MEDIUM"
    ELSE "LOW"

\* Line 288: the confidence of a put.
put_confidence(rr) ==
    IF rr >= 20 THEN "HIGH" ELSE IF rr >= 15 THEN "MEDIUM" ELSE "LOW"

\* Lines 158-220 and 272-316: the trade built from the best row.  index is
\* the row's place in the chain and pass the filter pass it came from;
\* neither is a field of OptionTrade.  int(500 / (entry * 100)) divides by
\* zero when the mid price rounds to no cent at all.
OptionTrade(ticker, strategy, rows, k, pass, intrinsic_at_target, dte, signal) ==
    LET best == rows[k]
        entry == RoundDiv(best.bid + best.ask, 2 * Cent) * Cent
        option_target == RoundDiv(intrinsic_at_target * 85, 100 * Cent) * Cent
        option_stop == RoundDiv(entry * 5, 10 * Cent) * Cent
        risk == entry
        reward == option_target - entry
        rr == IF risk > 0 THEN RoundDiv(reward * 10, risk) ELSE 0
    IN  IF entry = 0
        THEN [kind |-> "raised", error |-> "ZeroDivisionError"]
        ELSE [kind |-> "trade",
              ticker |-> ticker,
              strategy |-> strategy,
              index |-> k,
              pass |-> pass,
              strike |-> best.strike,
              option_bid |-> best.bid,
              option_ask |-> best.ask,
              entry_price |-> entry,
              option_target |-> option_target,
              option_stop |-> option_stop,
              risk_dollars |-> entry * 100,
              reward_dollars |-> reward * 100,
              risk_reward |-> rr,
              contracts_for_500 |-> Max(1, 50000 \div entry),
              contracts_for_1000 |-> Max(1, 100000 \div entry),
              max_hold_days |-> Min(dte - 5, 14),
              confidence |-> IF strategy = "BUY_CALL"
                             THEN call_confidence(rr, signal)
                             ELSE put_confidence(rr)]

\* Lines 112 and 242: the second pass is taken when, and only when, the
\* first one kept no row.
Candidates(first, widened) == IF first = {} THEN widened ELSE first

\* find_best_call, lines 89-220.
find_best_call(ticker, q, signal, stock_price, target_price) ==
    LET chain == get_options_chain(q)
    IN  IF chain.kind = "raised" THEN chain
        ELSE IF chain.kind = "none" \/ chain.rows = <<>> THEN [kind |-> "none"]
        ELSE
          LET calls == chain.rows
              first == {k \in 1..Len(calls) : CallFirstPass(calls[k], stock_price)}
              widened == {k \in 1..Len(calls) : CallWidened(calls[k], stock_price)}
              candidates == Candidates(first, widened)
              score == [k \in candidates |->
                           score_option(calls[k], stock_price, target_price)]
              best == idxmax(candidates, score)
          IN  IF candidates = {} THEN [kind |-> "none"]
              ELSE OptionTrade(ticker, "BUY_CALL", calls, best,
                               IF first = {} THEN "widened" ELSE "first",
                               Max(0, target_price - calls[best].strike),
                               chain.dte, signal)

\* find_best_put, lines 223-316.
find_best_put(ticker, q, signal, stock_price, target_price) ==
    LET chain == get_options_chain(q)
    IN  IF chain.kind = "raised" THEN chain
        ELSE IF chain.kind = "none" \/ chain.rows = <<>> THEN [kind |-> "none"]
        ELSE
          LET puts == chain.rows
              first == {k \in 1..Len(puts) : PutFirstPass(puts[k], stock_price)}
              widened == {k \in 1..Len(puts) : PutWidened(puts[k], stock_price)}
              candidates == Candidates(first, widened)
              score == [k \in candidates |-> score_put(puts[k], target_price)]
              best == idxmax(candidates, score)
          IN  IF candidates = {} THEN [kind |-> "none"]
              ELSE OptionTrade(ticker, "BUY_PUT", puts, best,
                               IF first = {} THEN "widened" ELSE "first",
                               Max(0, puts[best].strike - target_price),
                               chain.dte, signal)

\* ------------------------------------------------ the chains and signals
\* Chain rows around a $100 stock: two liquid rows at and above the money,
\* a row with a wide spread, a row with bid = ask, a row below the money, a
\* thinly bid row, a row far out of the money, a row with no quote, and two
\* rows of nearly the same reward and spread at and below the money.
ChainRows ==
    { [strike |-> 1000000, bid |-> 15000, ask |-> 16000],
      [strike |-> 1000000, bid |-> 19000, ask |-> 21000],
      [strike |-> 960000,  bid |-> 9600,  ask |-> 10400],
      [strike |-> 1040000, bid |-> 6000,  ask |-> 6400],
      [strike |-> 1010000, bid |-> 8000,  ask |-> 12000],
      [strike |-> 1000000, bid |-> 15000, ask |-> 15000],
      [strike |-> 960000,  bid |-> 5000,  ask |-> 5400],
      [strike |-> 1000000, bid |-> 800,   ask |-> 1000],
      [strike |-> 1200000, bid |-> 2000,  ask |-> 2200],
      [strike |-> 1020000, bid |-> 0,     ask |-> 0] }

\* What the quote service answers for a chain: an error, no expiration, or
\* the rows of expirations 4 and 25 days away.
Chains ==
    {[fetch |-> "raise"], [fetch |-> "ok", expirations |-> <<>>, rows |-> <<>>]}
    \cup {[fetch |-> "ok", expirations |-> e, rows |-> r] :
              e \in {<<4>>, <<25>>, <<4, 25>>},
              r \in UNION {[1..n -> ChainRows] : n \in 0..MaxChain}}

\* Summaries generate_signal returns for the bars of SignalBars: the
\* fields of SignalScore that options_trades.py reads.
Summary(score, signal, entry_price, target_1) ==
    [score |-> score, signal |-> signal,
     entry_price |-> entry_price, target_1 |-> target_1]

BullishSignals ==
    { Summary(450, "BUY_NOW", 1000000, 1060000),
      Summary(250, "BUY_NOW", 1000000, 1060000),
      Summary(250, "BUY_PULLBACK", 950000, 1010000) }

BearishSignals ==
    { Summary(-450, "SELL", 1000000, 940000),
      Summary(-250, "WAIT", 940000, 940000) }

NeutralSignals == { Summary(150, "WAIT", 950000, 1000000) }


\* --------------------------------------------------- calls of the finders
call_find_best_call ==
    /\ sig.phase = "asked" /\ sig.fn = "find_best_call"
    /\ sig' = Answered(find_best_call(sig.input.ticker, sig.input.q,
                                      sig.input.signal,
                                      sig.input.stock_price,
                                      sig.input.target_price))
    /\ UNCHANGED <<ledger_vars, gen>>

call_find_best_put ==
    /\ sig.phase = "asked" /\ sig.fn = "find_best_put"
    /\ sig' = Answered(find_best_put(sig.input.ticker, sig.input.q,
                                     sig.input.signal,
                                     sig.input.stock_price,
                                     sig.input.target_price))
    /\ UNCHANGED <<ledger_vars, gen>>

\* --------------------------------------------------------- generate_trades
\* What the three lookups of one ticker can answer: generate_signal raises
\* or returns a summary; fast_info raises, has no lastPrice (the default 0)
\* or has one; the chain is one of a few.
SignalLookups ==
    {[kind |-> "raise"]}
    \cup {[kind |-> "ok", signal |-> s] :
              s \in BullishSignals \cup BearishSignals \cup NeutralSignals}

PriceLookups ==
    {[kind |-> "raise"], [kind |-> "ok", price |-> 0],
     [kind |-> "ok", price |-> StockPrice]}

TradeChains ==
    {q \in Chains :
        \/ q.fetch = "raise"
        \/ q.expirations = <<>>
        \/ /\ q.expirations = <<25>>
           /\ Len(q.rows) = 1
           /\ q.rows[1].strike \in {1000000, 1200000, 1020000}
           /\ q.rows[1].bid \in {15000, 2000, 0}
           /\ q.rows[1].ask # 15000}

\* Mutant: every trade found is appended, whatever its risk_reward.
TryBody_Unfiltered(ticker, s, p, q) ==
    IF s.kind = "raise" THEN [kind |-> "raised", error |-> "generate_signal"]
    ELSE IF p.kind = "raise" THEN [kind |-> "raised", error |-> "fast_info"]
    ELSE IF p.price = 0 THEN [kind |-> "continue"]
    ELSE IF s.signal.score >= 200
            /\ s.signal.signal \in {"BUY_NOW", "BUY_PULLBACK"}
    THEN LET trade == find_best_call(ticker, q, s.signal, p.price,
                                     s.signal.target_1)
         IN  IF trade.kind = "raised" THEN trade
             ELSE IF trade.kind = "trade"
             THEN [kind |-> "append", trade |-> trade]
             ELSE [kind |-> "pass"]
    ELSE IF s.signal.score <= -200
    THEN LET target_down == (p.price * 92) \div 100
             trade == find_best_put(ticker, q, s.signal, p.price, target_down)
         IN  IF trade.kind = "raised" THEN trade
             ELSE IF trade.kind = "trade"
             THEN [kind |-> "append", trade |-> trade]
             ELSE [kind |-> "pass"]
    ELSE [kind |-> "pass"]

\* Lines 325-343, the body of the try for one ticker: what it raises, or
\* "continue", or the trade it appends, or nothing.
TryBody(ticker, s, p, q) ==
    IF s.kind = "raise" THEN [kind |-> "raised", error |-> "generate_signal"]
    ELSE IF p.kind = "raise" THEN [kind |-> "raised", error |-> "fast_info"]
    ELSE IF p.price = 0 THEN [kind |-> "continue"]
    ELSE IF s.signal.score >= 200
            /\ s.signal.signal \in {"BUY_NOW", "BUY_PULLBACK"}
    THEN LET trade == find_best_call(ticker, q, s.signal, p.price,
                                       s.signal.target_1)
         IN  IF trade.kind = "raised" THEN trade
             ELSE IF trade.kind = "trade" /\ trade.risk_reward >= 15
             THEN [kind |-> "append", trade |-> trade]
             ELSE [kind |-> "pass"]
    ELSE IF s.signal.score <= -200
    THEN LET target_down == (p.price * 92) \div 100
             trade == find_best_put(ticker, q, s.signal, p.price, target_down)
         IN  IF trade.kind = "raised" THEN trade
             ELSE IF trade.kind = "trade" /\ trade.risk_reward >= 15
             THEN [kind |-> "append", trade |-> trade]
             ELSE [kind |-> "pass"]
    ELSE [kind |-> "pass"]

\* The handler left out: the exception leaves generate_trades.
except_Exception_propagates(g, e) ==
    [g EXCEPT !.phase = "raised", !.log = Append(@, "error")]

\* Lines 345-346: the exception is reported and the loop takes the next
\* ticker.
except_Exception(g, e) ==
    [g EXCEPT !.i = @ + 1, !.log = Append(@, "error")]

\* One turn of the loop of lines 323-346.  signal is the local variable of
\* line 325, which keeps its value when generate_signal raises; log is the
\* outcome per ticker, kept for the claims: it is no variable of the code.
generate_trades_ticker ==
    /\ gen.phase = "running" /\ gen.i < Len(gen.watchlist)
    /\ \E s \in SignalLookups, p \in PriceLookups, q \in TradeChains :
          LET ticker == gen.watchlist[gen.i + 1]
              r == TryBody(ticker, s, p, q)
              bound == [gen EXCEPT !.signal = IF s.kind = "ok" THEN s ELSE @]
          IN  gen' = IF r.kind = "raised" THEN except_Exception(bound, r.error)
                     ELSE [bound EXCEPT
                             !.i = @ + 1,
                             !.trades = IF r.kind = "append"
                                        THEN Append(@, r.trade) ELSE @,
                             !.log = Append(@, r.kind)]
    /\ UNCHANGED <<ledger_vars, sig>>

\* Line 348.
generate_trades_return ==
    /\ gen.phase = "running" /\ gen.i = Len(gen.watchlist)
    /\ gen' = [gen EXCEPT !.phase = "returned"]
    /\ UNCHANGED <<ledger_vars, sig>>

\* A call of one finder as generate_trades makes it.
InitFinders ==
    /\ portfolio = <<>>
    /\ history = <<>>
    /\ now = 0
    /\ issued = <<>>
    /\ ret = NoRet
    /\ pc = [p \in Procs |-> "idle"]
    /\ loc = [p \in Procs |-> <<>>]
    /\ done = {}
    /\ gen = NoGen
    /\ sig \in {Asked("find_best_call",
                       [ticker |-> 1, q |-> q, signal |-> s,
                        stock_price |-> StockPrice,
                        target_price |-> s.target_1]) :
                     q \in Chains, s \in BullishSignals}
                \cup
                {Asked("find_best_put",
                       [ticker |-> 1, q |-> q, signal |-> s,
                        stock_price |-> StockPrice,
                        target_price |-> (StockPrice * 92) \div 100]) :
                     q \in Chains, s \in BearishSignals}

NextFinders ==
    \/ call_find_best_call
    \/ call_find_best_put

SpecFinders == InitFinders /\ [][NextFinders]_vars

\* A call of generate_trades with a watchlist of up to MaxTickers tickers,
\* a ticker listed twice included.
InitTrades ==
    /\ portfolio = <<>>
    /\ history = <<>>
    /\ now = 0
    /\ issued = <<>>
    /\ ret = NoRet
    /\ pc = [p \in Procs |-> "idle"]
    /\ loc = [p \in Procs |-> <<>>]
    /\ done = {}
    /\ sig = NoSig
    /\ gen \in {[phase |-> "running", watchlist |-> w, i |-> 0,
                  signal |-> [kind |-> "unbound"],
                  trades |-> <<>>, log |-> <<>>] :
                     w \in UNION {[1..n -> 1..2] : n \in 0..MaxTickers}}

NextTrades ==
    \/ generate_trades_ticker
    \/ generate_trades_return

\* The loop is a plain for over a list: a turn that can be taken is taken.
SpecTrades == InitTrades /\ [][NextTrades]_vars /\ WF_vars(NextTrades)


\* ------------------------------------------------ claims on the finders
FinderAnswered ==
    sig.phase = "answered" /\ sig.fn \in {"find_best_call", "find_best_put"}

\* The first pass as it is described: strike between lo% and hi% of the
\* stock price, bid above $0.10, spread below 15% of the ask.
InFirstPass(row, stock_price, lo, hi) ==
    /\ InBand(row, stock_price, lo, hi)
    /\ row.bid > 1000
    /\ QLt(Quotient(row.ask - row.bid, row.ask), 15, 100)

\* The described first pass over the chain handed to the answered call:
\* [0.98, 1.05] of the price for calls, [0.95, 1.02] for puts.
FirstPassRows ==
    {k \in 1..Len(sig.input.q.rows) :
        IF sig.fn = "find_best_call"
        THEN InFirstPass(sig.input.q.rows[k], sig.input.stock_price, 98, 105)
        ELSE InFirstPass(sig.input.q.rows[k], sig.input.stock_price, 95, 102)}

\* C19: whenever the first (non-widened) pass keeps at least one row of the
\* chain, the contract returned by find_best_call has its strike within
\* [0.98, 1.05] of the stock price, bid > 0.10 and (ask - bid) / ask < 0.15,
\* and the contract returned by find_best_put has its strike within
\* [0.95, 1.02] of the stock price and the same bid and spread conditions.
C19_FirstPassFilters ==
    FinderAnswered /\ sig.out.kind = "trade" /\ FirstPassRows # {}
        => sig.out.index \in FirstPassRows


\* ----------------------------------------------- claims on generate_trades
IsPrefix(s, t) == Len(s) <= Len(t) /\ SubSeq(t, 1, Len(s)) = s

\* C18: a failure while one ticker is processed (generate_signal, the
\* quote, the chain or the choice of the contract raising, or no price)
\* never aborts the batch: no exception leaves generate_trades, every turn
\* of the loop keeps the trades collected so far and handles exactly the
\* next ticker, and every call returns, with every ticker of the watchlist
\* handled.
C18_BatchSurvives ==
    /\ [](gen.phase # "raised")
    /\ [][gen.phase = "running"
             => /\ gen'.phase \in {"running", "returned"}
                /\ gen'.watchlist = gen.watchlist
                /\ IsPrefix(gen.trades, gen'.trades)
                /\ IsPrefix(gen.log, gen'.log)
                /\ Len(gen'.log) = gen'.i
                /\ gen'.phase = "returned" => gen' = [gen EXCEPT !.phase = "returned"]]_gen
    /\ (gen.phase = "running")
          ~> (gen.phase = "returned" /\ Len(gen.log) = Len(gen.watchlist))

\* C18 witness: a returned call whose first ticker gave a trade, whose
\* second raised and whose third gave a trade again; both trades are in
\* the list.
C18_Witness ==
    /\ gen.phase = "returned"
    /\ gen.log = <<"append", "error", "append">>
    /\ Len(gen.trades) = 2
    /\ gen.trades[1].strategy = "BUY_CALL"


\* The rows of the chain handed to the answered call that the widened pass
\* keeps.
WidenedRows ==
    {k \in 1..Len(sig.input.q.rows) :
        IF sig.fn = "find_best_call"
        THEN CallWidened(sig.input.q.rows[k], sig.input.stock_price)
        ELSE PutWidened(sig.input.q.rows[k], sig.input.stock_price)}

\* C20: find_best_call and find_best_put widen the band and relax the
\* filters at most once and only when the first pass is empty; when the
\* chain is missing or empty, or no row is left after the widening, they
\* return None and raise nothing; a result other than None is a row of the
\* chain that was supplied.
C20_WidenOnce ==
    FinderAnswered /\ sig.input.q.fetch = "ok"
        => /\ \/ sig.input.q.expirations = <<>>
              \/ sig.input.q.rows = <<>>
              \/ (FirstPassRows = {} /\ WidenedRows = {})
                 => sig.out.kind = "none"
           /\ sig.out.kind = "trade"
                 => /\ sig.out.index \in 1..Len(sig.input.q.rows)
                    /\ sig.out.strike = sig.input.q.rows[sig.out.index].strike
                    /\ sig.out.option_bid = sig.input.q.rows[sig.out.index].bid
                    /\ sig.out.option_ask = sig.input.q.rows[sig.out.index].ask
                    /\ sig.out.pass = "widened"
                          => FirstPassRows = {} /\ sig.out.index \in WidenedRows


\* C21: every OptionTrade returned by find_best_call or find_best_put has
\* confidence HIGH exactly when risk_reward >= 2 and the signal's score is
\* >= 40, MEDIUM exactly when it is not HIGH and risk_reward >= 1.5 and the
\* score is >= 20, and LOW otherwise.
C21_Confidence ==
    FinderAnswered /\ sig.out.kind = "trade"
        => sig.out.confidence =
              IF sig.out.risk_reward >= 20 /\ sig.input.signal.score >= 400
              THEN "HIGH"
              ELSE IF sig.out.risk_reward >= 15 /\ sig.input.signal.score >= 200
              THEN "MEDIUM"
              ELSE "LOW"


\* C22: every returned OptionTrade has max_hold_days = min(days to
\* expiration - 5, 14); it is at most 14, never reaches into the last 5
\* days before the expiration, and is a non-negative number of days for
\* every chosen expiration, one fewer than 5 days away included.
C22_MaxHoldDays ==
    FinderAnswered /\ sig.out.kind = "trade"
        => LET dte == get_options_chain(sig.input.q).dte
           IN  /\ sig.out.max_hold_days = Min(dte - 5, 14)
               /\ sig.out.max_hold_days <= 14
               /\ sig.out.max_hold_days <= dte - 5
               /\ sig.out.max_hold_days >= 0


\* C23: an indicator that is undefined at the latest bar is never scored
\* as though it were a number: analyze_trend applies no +10 / -10 for the
\* price against an undefined moving average and no ADX scaling for an
\* undefined ADX, and generate_signal emits no stop or target as a number
\* when the ATR is undefined.
C23_UndefinedNotScored ==
    /\ sig.phase = "answered" /\ sig.fn = "analyze_trend"
          => LET df == sig.input
                 vs(sma) == IF IsNaN(sma) THEN 0
                            ELSE IF df.Close > sma THEN 100 ELSE -100
                 defined == ~IsNaN(df.SMA_20) /\ ~IsNaN(df.SMA_50)
                               /\ ~IsNaN(df.SMA_200)
                 aligned ==
                     IF defined /\ df.SMA_20 > df.SMA_50 /\ df.SMA_50 > df.SMA_200
                     THEN 150
                     ELSE IF defined /\ df.SMA_20 < df.SMA_50
                                /\ df.SMA_50 < df.SMA_200
                     THEN -150
                     ELSE 0
                 base == vs(df.SMA_20) + vs(df.SMA_50) + vs(df.SMA_200) + aligned
                 scaled == IF IsNaN(df.ADX) THEN base
                           ELSE IF df.ADX > 25 THEN (base * 12) \div 10
                           ELSE IF df.ADX < 20 THEN (base * 7) \div 10
                           ELSE base
             IN  sig.out = Min(Max(scaled, -500), 500)
    /\ SignalAnswered /\ IsNaN(sig.input.df.ATR)
          => /\ IsNaN(sig.out.stop_loss)
             /\ IsNaN(sig.out.target_1)
             /\ IsNaN(sig.out.target_2)


\* The score as it is described, for calls and puts alike, in hundredths of
\* a point: 10 x (intrinsic value at target - mid) / mid - 20 x (ask - bid)
\* / ask - 10 x |strike - stock price| / stock price.
DescribedScore(row) ==
    RewardTerm(row, IF sig.fn = "find_best_call"
                    THEN Max(0, sig.input.target_price - row.strike)
                    ELSE Max(0, row.strike - sig.input.target_price))
        - SpreadTerm(row) - DistanceTerm(row, sig.input.stock_price)

\* The candidates of the answered call: the rows its filter pass kept.
CandidateRows ==
    {k \in 1..Len(sig.input.q.rows) :
        LET row == sig.input.q.rows[k]
            p == sig.input.stock_price
        IN  IF sig.fn = "find_best_call"
            THEN IF sig.out.pass = "first" THEN CallFirstPass(row, p)
                 ELSE CallWidened(row, p)
            ELSE IF sig.out.pass = "first" THEN PutFirstPass(row, p)
                 ELSE PutWidened(row, p)}

\* C24: the selected contract has the greatest described score among the
\* filtered candidates, for calls and for puts alike, and among candidates
\* sharing the greatest score it is the first in the order of the chain.
C24_BestScore ==
    FinderAnswered /\ sig.out.kind = "trade"
        => /\ sig.out.index \in CandidateRows
           /\ \A k \in CandidateRows :
                 LET best == DescribedScore(sig.input.q.rows[sig.out.index])
                     other == DescribedScore(sig.input.q.rows[k])
                 IN  best > other \/ (best = other /\ sig.out.index <= k)


\* ------------------------------------------------- support and resistance
\* The longest window of bars explored.
MaxBars == 8

\* Windows of up to MaxBars bars: every series of highs over a value below
\* the price and two above it, with the lows of LowSeries.
LevelRows ==
    {[BaseBar EXCEPT !.High = high, !.Low = low] :
        high \in UNION {[1..n -> {990000, 1040000, 1060000}] : n \in 0..MaxBars},
        low \in LowSeries}

call_find_support_resistance ==
    /\ sig.phase = "asked" /\ sig.fn = "find_support_resistance"
    /\ sig' = Answered(find_support_resistance(sig.input.df,
                                               sig.input.current_price))
    /\ UNCHANGED <<ledger_vars, gen>>

InitLevels ==
    /\ portfolio = <<>>
    /\ history = <<>>
    /\ now = 0
    /\ issued = <<>>
    /\ ret = NoRet
    /\ pc = [p \in Procs |-> "idle"]
    /\ loc = [p \in Procs |-> <<>>]
    /\ done = {}
    /\ gen = NoGen
    /\ sig \in {Asked("find_support_resistance",
                      [df |-> df, current_price |-> price]) :
                    df \in LevelRows, price \in {1000000, 1040000}}

NextLevels == call_find_support_resistance

SpecLevels == InitLevels /\ [][NextLevels]_vars

\* C25: for every window and current price find_support_resistance returns
\* resistance_1 < resistance_2 strictly and support_1 < current price <
\* resistance_1; resistance_1 is the lowest swing high above the price, or
\* price x 1.05 without one, and support_1 the highest swing low below the
\* price, or price x 0.95 without one.
C25_LevelsOrdered ==
    sig.phase = "answered" /\ sig.fn = "find_support_resistance"
        => LET price == sig.input.current_price
               highs == {sig.input.df.High[i] : i \in SwingHighs(sig.input.df.High)}
               lows == {sig.input.df.Low[i] : i \in SwingLows(sig.input.df.Low)}
               above == {h \in highs : h > price}
               below == {l \in lows : l < price}
           IN  /\ sig.out.resistance_1 < sig.out.resistance_2
               /\ sig.out.support_1 < price
               /\ price < sig.out.resistance_1
               /\ above # {} => /\ sig.out.resistance_1 \in above
                                /\ \A h \in above : sig.out.resistance_1 <= h
               /\ above = {} => sig.out.resistance_1 * 100 = price * 105
               /\ below # {} => /\ sig.out.support_1 \in below
                                /\ \A l \in below : l <= sig.out.support_1
               /\ below = {} => sig.out.support_1 * 100 = price * 95


\* C26: the trend sub-score is clamp(m x base, -50, 50), where base is +10
\* or -10 for the price above or not above each of SMA20, SMA50 and SMA200,
\* plus 15 if SMA20 > SMA50 > SMA200, minus 15 if SMA20 < SMA50 < SMA200,
\* and m is 1.2 if ADX > 25, 0.7 if ADX < 20, else 1; the clamp comes after
\* the scaling (close 110, SMA 100 / 95 / 90, ADX 30: 54 clamped to 50).
C26_TrendFormula ==
    /\ sig.phase = "answered" /\ sig.fn = "analyze_trend"
       /\ ~IsNaN(sig.input.SMA_20) /\ ~IsNaN(sig.input.SMA_50)
       /\ ~IsNaN(sig.input.SMA_200) /\ ~IsNaN(sig.input.ADX)
          => LET df == sig.input
                 vs(sma) == IF df.Close > sma THEN 10 ELSE -10
                 base == vs(df.SMA_20) + vs(df.SMA_50) + vs(df.SMA_200)
                         + (IF df.SMA_20 > df.SMA_50 /\ df.SMA_50 > df.SMA_200
                            THEN 15
                            ELSE IF df.SMA_20 < df.SMA_50
                                    /\ df.SMA_50 < df.SMA_200
                            THEN -15 ELSE 0)
                 m10 == IF df.ADX > 25 THEN 12 ELSE IF df.ADX < 20 THEN 7 ELSE 10
             IN  /\ sig.out >= -500 /\ sig.out <= 500
                 /\ sig.out = IF m10 * base > 500 THEN 500
                              ELSE IF m10 * base < -500 THEN -500
                              ELSE m10 * base
    /\ sig.phase = "answered" /\ sig.fn = "analyze_trend"
       /\ sig.input.Close = 1100000 /\ sig.input.SMA_20 = 1000000
       /\ sig.input.SMA_50 = 950000 /\ sig.input.SMA_200 = 900000
       /\ sig.input.ADX = 30
          => sig.out = 500

\* C26 witness: the scenario of the spec, 54 clamped to 50, has been scored.
C26_Witness ==
    /\ sig.phase = "answered" /\ sig.fn = "analyze_trend"
    /\ sig.input.Close = 1100000 /\ sig.input.SMA_20 = 1000000
    /\ sig.input.SMA_50 = 950000 /\ sig.input.SMA_200 = 900000
    /\ sig.input.ADX = 30
    /\ TrendBeforeClamp(sig.input) = 540
    /\ sig.out = 500


\* C27: every bullish signal (BUY_NOW or BUY_PULLBACK) computed with an
\* ATR > 0 has risk_reward exactly 2.0, whatever the entry price, the
\* supports and the score; the downgrade of BUY_NOW to BUY_PULLBACK and its
\* warning happen only with an ATR that is zero or undefined, and with an
\* ATR > 0 every BUY_NOW decided is returned as BUY_NOW.
C27_BullishRiskReward ==
    SignalAnswered
        => LET atr == sig.input.df.ATR
               l == sig.out.locals
               downgraded ==
                   \E k \in 1..Len(sig.out.warnings) :
                       sig.out.warnings[k] = "RR_DOWNGRADE"
           IN  /\ l.signal \in {"BUY_NOW", "BUY_PULLBACK"} /\ Gt(atr, 0)
                     => /\ l.risk > 0
                        /\ l.reward = 2 * l.risk
                        /\ sig.out.risk_reward = 200
                        /\ sig.out.signal = l.signal
                        /\ ~downgraded
               /\ downgraded \/ sig.out.signal # l.signal
                     => /\ IsNaN(atr) \/ atr = 0
                        /\ l.signal = "BUY_NOW"
                        /\ sig.out.signal = "BUY_PULLBACK"

\* C27 witness: a pullback entry at a support of 96 with an ATR of 2.01
\* came back with risk_reward 2.0.
C27_Witness ==
    /\ SignalAnswered
    /\ sig.out.signal = "BUY_PULLBACK"
    /\ sig.out.locals.signal = "BUY_PULLBACK"
    /\ sig.input.df.ATR = 20100
    /\ sig.out.entry_price = 960000
    /\ sig.out.locals.risk = 30150
    /\ sig.out.risk_reward = 200


\* C28: every trade in the list of generate_trades has risk_reward >= 1.5
\* and confidence HIGH or MEDIUM; a BUY_CALL is there only for a ticker
\* whose signal has score >= 20 and is BUY_NOW or BUY_PULLBACK, a BUY_PUT
\* only for a ticker whose score is <= -20; a turn of the loop appends at
\* most one trade, for the ticker of that turn, so the list has at most one
\* trade per entry of the watchlist, in the order of the watchlist.
C28_TradesFiltered ==
    /\ [](gen.phase \in {"running", "returned"}
            => /\ Len(gen.trades) <= gen.i
               /\ \A j \in 1..Len(gen.trades) :
                     /\ gen.trades[j].risk_reward >= 15
                     /\ gen.trades[j].confidence \in {"HIGH", "MEDIUM"})
    /\ [][gen.phase = "running" /\ gen'.trades # gen.trades
             => /\ Len(gen'.trades) = Len(gen.trades) + 1
                /\ IsPrefix(gen.trades, gen'.trades)
                /\ gen'.i = gen.i + 1
                /\ gen'.signal.kind = "ok"
                /\ LET trade == gen'.trades[Len(gen'.trades)]
                       signal == gen'.signal.signal
                   IN  /\ trade.ticker = gen.watchlist[gen'.i]
                       /\ trade.strategy \in {"BUY_CALL", "BUY_PUT"}
                       /\ trade.strategy = "BUY_CALL"
                             => /\ signal.score >= 200
                                /\ signal.signal \in {"BUY_NOW", "BUY_PULLBACK"}
                       /\ trade.strategy = "BUY_PUT"
                             => signal.score <= -200]_gen

\* C28 witness: a ticker listed twice gave a call of MEDIUM confidence on
\* a score of 25 and then a put, and the list was returned with both.
C28_Witness ==
    /\ gen.phase = "returned"
    /\ gen.watchlist = <<1, 1>>
    /\ Len(gen.trades) = 2
    /\ gen.trades[1].strategy = "BUY_CALL"
    /\ gen.trades[1].confidence = "MEDIUM"
    /\ gen.trades[2].strategy = "BUY_PUT"
    /\ gen.signal.signal.score <= -200


\* ================================================================ report
\* daily_report.py: generate_daily_report revalues the open positions and
\* then closes those whose stored price is at the target or at the stop.

\* auto_close_positions from the k-th position of the list it loaded.  Each
\* close_position call loads both files again, searches by id and saves;
\* what it returns is not looked at.  An entry of closed_today carries the
\* label, the contract and the stored P&L of the loaded position; `index`
\* and `closed` (what close_position returned) are kept beside it here.
RECURSIVE AutoCloseFrom(_, _, _, _, _, _)
AutoCloseFrom(loaded, k, positions, trades, closed_today, t) ==
    IF k > Len(loaded)
    THEN [outcome |-> "returned", positions |-> positions, trades |-> trades,
          closed_today |-> closed_today]
    ELSE LET p == loaded[k]
             hit == IF p.current_price >= p.target_price THEN "TARGET"
                    ELSE IF p.current_price <= p.stop_price THEN "STOP"
                    ELSE "no"
             r == CloseOn(positions, trades, p.id, p.current_price, hit, t)
         IN  IF hit = "no"
             THEN AutoCloseFrom(loaded, k + 1, positions, trades, closed_today, t)
             ELSE IF r.outcome = "raised"
             THEN [outcome |-> "raised", positions |-> positions,
                   trades |-> trades, closed_today |-> closed_today]
             ELSE AutoCloseFrom(loaded, k + 1, r.positions, r.trades,
                      Append(closed_today,
                             [label |-> IF hit = "TARGET" THEN "WIN" ELSE "LOSS",
                              contract |-> p.contract,
                              pnl_dollars |-> p.pnl_dollars,
                              pnl_percent |-> p.pnl_percent,
                              index |-> k,
                              closed |-> r.closed]),
                      t)

auto_close_positions(positions, trades, t) ==
    AutoCloseFrom(positions, 1, positions, trades, <<>>, t)

\* generate_daily_report, lines 105-108: update_positions(), then
\* auto_close_positions().  An exception of either leaves the handler; what
\* was saved before it stays saved.
generate_daily_report(m) ==
    LET u == UpdateOn(portfolio, QuotesFor(portfolio, m), now)
        a == auto_close_positions(u.positions, history, now)
    IN  /\ portfolio' = IF u.outcome = "raised" THEN portfolio ELSE a.positions
        /\ history' = IF u.outcome = "raised" THEN history ELSE a.trades
        /\ ret' = [NoRet EXCEPT
                      !.op = "report", !.at = now,
                      !.outcome = IF u.outcome = "raised" THEN "raised"
                                  ELSE a.outcome,
                      !.alerts = u.alerts,
                      !.updated = IF u.outcome = "raised" THEN <<>>
                                  ELSE u.positions,
                      !.closed_today = IF u.outcome = "raised" THEN <<>>
                                       ELSE a.closed_today]
        /\ UNCHANGED <<now, issued, pc, loc, done, engine_vars>>

NextReport ==
    \/ \E o \in Orders : open_position(o)
    \/ \E m \in Markets : generate_daily_report(m)
    \/ Tick

SpecReport == Init /\ [][NextReport]_vars

\* A position whose stored price is at or above its target, or at or below
\* its stop.
AtExit(p) == p.current_price >= p.target_price \/ p.current_price <= p.stop_price

NotAtExit(p) == ~AtExit(p)

\* A step that is a generate_daily_report which returned.
ReportStep == ret'.op = "report" /\ ret'.outcome = "returned" /\ now' = now

\* C29: after the daily report's update_positions followed by
\* auto_close_positions, the open set is exactly the revalued positions
\* that are neither at their target nor at their stop, unchanged and in
\* order; the history has grown by one record per position at its target
\* or stop, with that position's id, exit_reason TARGET when its stored
\* current_price >= target_price and STOP otherwise, and exit_price equal
\* to its stored current_price; that id appears once in the history; and
\* the report's WIN/LOSS label is the result of the ClosedTrade.
C29_AutoClose ==
    [][ReportStep
          => LET exits == SelectSeq(ret'.updated, AtExit)
                 new == SubSeq(history', Len(history) + 1, Len(history'))
             IN  /\ portfolio' = SelectSeq(ret'.updated, NotAtExit)
                 /\ IsPrefix(history, history')
                 /\ Len(new) = Len(exits)
                 /\ Len(ret'.closed_today) = Len(exits)
                 /\ \A k \in 1..Len(exits) :
                       /\ k <= Len(new)
                       /\ new[k].id = exits[k].id
                       /\ new[k].contract = exits[k].contract
                       /\ new[k].exit_reason =
                             (IF exits[k].current_price >= exits[k].target_price
                              THEN "TARGET" ELSE "STOP")
                       /\ new[k].exit_price = exits[k].current_price
                       /\ Cardinality({j \in 1..Len(history') :
                                          history'[j].id = exits[k].id}) = 1
                       /\ k <= Len(ret'.closed_today)
                       /\ ret'.closed_today[k].label = new[k].result]_vars


\* An alert of the given type for the i-th position among those the
\* update about to return carries.
WillAlert(i, type) ==
    \E k \in 1..Len(ret'.alerts) :
        ret'.alerts[k].index = i /\ ret'.alerts[k].alert_type = type

\* C30: in an update_positions that found no option price for a position,
\* the position is valued at max(0.9 x intrinsic value at the stock price,
\* 0.1 x entry_price), which is positive for a positive entry_price; and
\* when the stock price is not to be had either (the lookup fails, or it
\* has no last price), the position keeps its previous current_price and
\* gets no TARGET_HIT or STOP_HIT alert that the previous price would not
\* have raised: a missing stock price is not taken for a price of 0.
C30_Fallback ==
    [][(UpdateStep /\ ret'.outcome = "returned")
          => \A i \in 1..Len(portfolio) :
                LET pos == portfolio[i]
                    q == ret'.quotes[i]
                    price == ret'.prices[i]
                    intrinsic == IF pos.option_type = "call"
                                 THEN Max(0, q.stock.price - pos.strike)
                                 ELSE Max(0, pos.strike - q.stock.price)
                IN  q.opt.kind # "quote"
                       => /\ q.stock.kind = "value"
                                => /\ price = Max((intrinsic * 9) \div 10,
                                                  pos.entry_price \div 10)
                                   /\ pos.entry_price > 0 => price > 0
                          /\ q.stock.kind # "value"
                                => /\ portfolio'[i].current_price = pos.current_price
                                   /\ WillAlert(i, "TARGET_HIT")
                                         => pos.current_price >= pos.target_price
                                   /\ WillAlert(i, "STOP_HIT")
                                         => pos.current_price <= pos.stop_price]_vars
====
